---- MODULE Spec2Model ----
(***************************************************************************)
(* HayQC: tenant-scoped access guards (backend/src/auth/guards.ts), the    *)
(* routes that call them (backend/src/routes/*.ts) over the relational     *)
(* store, and the bale grade classifier (webapp/src/types/qc.ts).          *)
(*                                                                         *)
(* The store is the set of Prisma tables the guards read.  A table is a    *)
(* function from the ids of its rows to the rows; an id outside its domain *)
(* names no row.  Every handler is an operator from (store, principal,     *)
(* input) to (response, store'), and the action of that handler commits    *)
(* the store it returns.                                                   *)
(***************************************************************************)
EXTENDS Integers, Sequences, FiniteSets, TLC

\* ------------------------------------------------------------------ bounds
MaxPO == 2
MaxShipment == 1
MaxContainer == 1
MaxBale == 1
MaxBulk == 2
MaxPOAssignment == 1
MaxInspectorAssignment == 1
MaxNote == 2
MoistureScale == 2
MaxTime == 5
MaxRange == 2
MaxCount == 13

\* ------------------------------------------------------- users and tokens
Roles == {"SUPERVISOR", "INSPECTOR", "CUSTOMER", "SUPPLIER"}

\* The User table: id -> company and role.
UserTable ==
  [ sup1  |-> [companyId |-> "c1", role |-> "SUPERVISOR"],
    insp1 |-> [companyId |-> "c1", role |-> "INSPECTOR"],
    cust1 |-> [companyId |-> "c1", role |-> "CUSTOMER"],
    sup2  |-> [companyId |-> "c2", role |-> "SUPERVISOR"],
    supl2 |-> [companyId |-> "c2", role |-> "SUPPLIER"] ]

UserIds == DOMAIN UserTable

\* The payload signed into a token at login: {userId, companyId, role}.
AuthPayload(u) ==
  [userId |-> u, companyId |-> UserTable[u].companyId, role |-> UserTable[u].role]

\* c.get("auth") when no valid token came with the request.
NoAuth == [userId |-> "null", companyId |-> "null", role |-> "null"]

Principals == {AuthPayload(u) : u \in UserIds}

\* A payload verifyAuthToken returns, since it checks only that userId,
\* companyId and role are strings, whose role is none of the four.
UnknownRoleAuth == [userId |-> "aud1", companyId |-> "c1", role |-> "AUDITOR"]

Auths == Principals \cup {NoAuth}

\* Client-supplied user ids in request bodies.
AssignableUserIds == {"insp1", "cust1", "supl2"}

InspectorIds == {"insp1", "sup2"}

\* ------------------------------------------------------------------ state
VARIABLES
  purchaseOrders,        \* id -> [companyId, status]
  shipments,             \* id -> [poId, status]
  containers,            \* id -> [shipmentId, status]
  bales,                 \* id -> [containerId, shipmentId, poId, inspectorId, decision,
                         \*        moisturePct, color, wetness, mold, contamination, grade]
  poUserAssignments,     \* set of [poId, userId], unique per pair
  inspectorAssignments,  \* id -> [containerId, inspectorId, rangeStart, rangeEnd]
  poNotes,               \* id -> [poId, userId, content]
  users,                 \* id -> [companyId, role, isActive]
  tokens,                \* the payloads of the tokens issued at login
  now,                   \* Date.now(), in minutes
  rateStore,             \* the rate limiter's Map: key -> [count, resetTime]
  authPassed,            \* key -> requests to /api/auth/* passed on to the handler
  shipmentReq,           \* a POST /api/shipments under way: [pc, poId, po]
  gradeIn,               \* classifier input under test
  gradeOut,              \* result of the first call on gradeIn
  gradeAgain             \* result of the second call on gradeIn

storeVars == <<purchaseOrders, shipments, containers, bales,
               poUserAssignments, inspectorAssignments, poNotes, users>>

gradeVars == <<gradeIn, gradeOut, gradeAgain>>

\* What a request to a route of the store leaves alone.
rateVars == <<now, rateStore, authPassed>>

\* What lies before the routes: the tokens and the rate limiter.
edgeVars == <<tokens, rateVars, shipmentReq>>

auxVars == <<gradeVars, edgeVars>>

vars == <<purchaseOrders, shipments, containers, bales,
          poUserAssignments, inspectorAssignments, poNotes, users,
          tokens, now, rateStore, authPassed, shipmentReq,
          gradeIn, gradeOut, gradeAgain>>

\* The store as one value, as the guards and handlers read it.
Store ==
  [ purchaseOrders |-> purchaseOrders, shipments |-> shipments,
    containers |-> containers, bales |-> bales,
    poUserAssignments |-> poUserAssignments,
    inspectorAssignments |-> inspectorAssignments,
    poNotes |-> poNotes, users |-> users ]

Commit(d) ==
  /\ purchaseOrders' = d.purchaseOrders
  /\ shipments' = d.shipments
  /\ containers' = d.containers
  /\ bales' = d.bales
  /\ poUserAssignments' = d.poUserAssignments
  /\ inspectorAssignments' = d.inspectorAssignments
  /\ poNotes' = d.poNotes
  /\ users' = d.users

\* prisma.<model>.create gives the new row an id no row of the table has.
NewId(table) ==
  CHOOSE i \in 1..(Cardinality(DOMAIN table) + 1) :
    i \notin DOMAIN table /\ \A j \in 1..(i - 1) : j \in DOMAIN table

Insert(table, row) ==
  [x \in DOMAIN table \cup {NewId(table)} |-> IF x \in DOMAIN table THEN table[x] ELSE row]

\* prisma.<model>.update({ where: { id }, data }): the columns data names take
\* its values, the others stay.
ApplyUpdate(row, data) ==
  [k \in DOMAIN row |-> IF k \in DOMAIN data THEN data[k] ELSE row[k]]

\* Ids a client can put in a request: every id a row can have, and one more.
POIds == 1..(MaxPO + 1)
ShipmentIds == 1..(MaxShipment + 1)
ContainerIds == 1..(MaxContainer + 1)
BaleIds == 1..(MaxBale + 1)
NoteIds == 1..(MaxNote + 1)

\* -------------------------------------------------------- ownership chain
\* The company reached by walking the parent chain of a row.
POCompany(d, poId) == d.purchaseOrders[poId].companyId

ShipmentCompany(d, shipmentId) == POCompany(d, d.shipments[shipmentId].poId)

ContainerPO(d, containerId) == d.shipments[d.containers[containerId].shipmentId].poId

ContainerCompany(d, containerId) == POCompany(d, ContainerPO(d, containerId))

BaleChainPO(d, baleId) == ContainerPO(d, d.bales[baleId].containerId)

BaleChainShipment(d, baleId) == d.containers[d.bales[baleId].containerId].shipmentId

BaleCompany(d, baleId) == POCompany(d, BaleChainPO(d, baleId))

HasAssignment(d, poId, userId) ==
  [poId |-> poId, userId |-> userId] \in d.poUserAssignments

\* The store without a row and without every row that refers to it, directly
\* or through its parents: the store in which the row never existed, and the
\* store after a delete that cascades.
Restrict(f, S) == [x \in S |-> f[x]]

WithoutBale(d, id) ==
  [d EXCEPT !.bales = Restrict(@, DOMAIN @ \ {id})]

WithoutContainer(d, id) ==
  [d EXCEPT
     !.containers = Restrict(@, DOMAIN @ \ {id}),
     !.bales = Restrict(@, { b \in DOMAIN @ : @[b].containerId # id }),
     !.inspectorAssignments =
        Restrict(@, { a \in DOMAIN @ : @[a].containerId # id })]

RECURSIVE WithoutContainers(_, _)
WithoutContainers(d, ids) ==
  IF ids = {} THEN d
  ELSE LET id == CHOOSE x \in ids : TRUE
       IN  WithoutContainers(WithoutContainer(d, id), ids \ {id})

WithoutShipment(d, id) ==
  [WithoutContainers(d, { c \in DOMAIN d.containers : d.containers[c].shipmentId = id })
     EXCEPT !.shipments = Restrict(@, DOMAIN @ \ {id}),
            !.bales = Restrict(@, { b \in DOMAIN @ : @[b].shipmentId # id })]

RECURSIVE WithoutShipments(_, _)
WithoutShipments(d, ids) ==
  IF ids = {} THEN d
  ELSE LET id == CHOOSE x \in ids : TRUE
       IN  WithoutShipments(WithoutShipment(d, id), ids \ {id})

WithoutPO(d, id) ==
  [WithoutShipments(d, { s \in DOMAIN d.shipments : d.shipments[s].poId = id })
     EXCEPT !.purchaseOrders = Restrict(@, DOMAIN @ \ {id}),
            !.bales = Restrict(@, { b \in DOMAIN @ : @[b].poId # id }),
            !.poUserAssignments = { a \in @ : a.poId # id },
            !.poNotes = Restrict(@, { n \in DOMAIN @ : @[n].poId # id })]

\* ------------------------------------------------------------------ guards
\* A guard run ends by returning (status 200, the caller goes on) or by
\* throwing HTTPException(status, message).  steps lists, in order, what the
\* run did: the ownership lookup, the company comparison, the assignment
\* lookup.
Outcome(status, message, steps) ==
  [status |-> status, message |-> message, steps |-> steps]

Allowed(steps) == Outcome(200, "", steps)

\* What the client can observe of a guard's outcome.
Visible(o) == [status |-> o.status, message |-> o.message]

requireAuth(auth) ==
  IF auth = NoAuth
    THEN Outcome(401, "Authentication required", <<>>)
    ELSE Allowed(<<>>)

requireRole(auth, allowedRoles) ==
  IF requireAuth(auth).status # 200 THEN requireAuth(auth)
  ELSE IF auth.role \notin allowedRoles
    THEN Outcome(403, "Access denied. Required roles", <<>>)
    ELSE Allowed(<<>>)

\* requirePOAccess answering a purchase order of another company with 403.
requirePOAccess_ForeignForbidden(d, auth, id) ==
  IF requireAuth(auth).status # 200 THEN requireAuth(auth)
  ELSE IF id \notin DOMAIN d.purchaseOrders
    THEN Outcome(404, "Purchase order not found", <<"ownership">>)
  ELSE IF d.purchaseOrders[id].companyId # auth.companyId
    THEN Outcome(403, "You do not have access to this purchase order",
                 <<"ownership", "company">>)
  ELSE IF auth.role = "CUSTOMER" \/ auth.role = "SUPPLIER"
    THEN IF ~HasAssignment(d, id, auth.userId)
           THEN Outcome(403, "You do not have access to this purchase order",
                        <<"ownership", "company", "assignment">>)
           ELSE Allowed(<<"ownership", "company", "assignment">>)
  ELSE Allowed(<<"ownership", "company">>)

\* requirePOAccess: purchase order lookup, company scoping, then the PO assignment of a
\* CUSTOMER or SUPPLIER.
requirePOAccess(d, auth, id) ==
  IF requireAuth(auth).status # 200 THEN requireAuth(auth)
  ELSE IF id \notin DOMAIN d.purchaseOrders
    THEN Outcome(404, "Purchase order not found", <<"ownership">>)
  ELSE IF d.purchaseOrders[id].companyId # auth.companyId
    THEN Outcome(404, "Purchase order not found", <<"ownership", "company">>)
  ELSE IF auth.role = "CUSTOMER" \/ auth.role = "SUPPLIER"
    THEN IF ~HasAssignment(d, id, auth.userId)
           THEN Outcome(403, "You do not have access to this purchase order",
                        <<"ownership", "company", "assignment">>)
           ELSE Allowed(<<"ownership", "company", "assignment">>)
  ELSE Allowed(<<"ownership", "company">>)

\* requireShipmentAccess checking the assignment of a CUSTOMER only.
requireShipmentAccess_CustomerOnly(d, auth, id) ==
  IF requireAuth(auth).status # 200 THEN requireAuth(auth)
  ELSE IF id \notin DOMAIN d.shipments
    THEN Outcome(404, "Shipment not found", <<"ownership">>)
  ELSE IF d.purchaseOrders[d.shipments[id].poId].companyId # auth.companyId
    THEN Outcome(404, "Shipment not found", <<"ownership", "company">>)
  ELSE IF auth.role = "CUSTOMER"
    THEN IF ~HasAssignment(d, d.shipments[id].poId, auth.userId)
           THEN Outcome(403, "You do not have access to this shipment",
                        <<"ownership", "company", "assignment">>)
           ELSE Allowed(<<"ownership", "company", "assignment">>)
  ELSE Allowed(<<"ownership", "company">>)

\* requireShipmentAccess: shipment lookup, company scoping, then the PO assignment of a
\* CUSTOMER or SUPPLIER.
requireShipmentAccess(d, auth, id) ==
  IF requireAuth(auth).status # 200 THEN requireAuth(auth)
  ELSE IF id \notin DOMAIN d.shipments
    THEN Outcome(404, "Shipment not found", <<"ownership">>)
  ELSE IF d.purchaseOrders[d.shipments[id].poId].companyId # auth.companyId
    THEN Outcome(404, "Shipment not found", <<"ownership", "company">>)
  ELSE IF auth.role = "CUSTOMER" \/ auth.role = "SUPPLIER"
    THEN IF ~HasAssignment(d, d.shipments[id].poId, auth.userId)
           THEN Outcome(403, "You do not have access to this shipment",
                        <<"ownership", "company", "assignment">>)
           ELSE Allowed(<<"ownership", "company", "assignment">>)
  ELSE Allowed(<<"ownership", "company">>)

\* requireContainerAccess without the company scoping.
requireContainerAccess_NoCompanyCheck(d, auth, id) ==
  IF requireAuth(auth).status # 200 THEN requireAuth(auth)
  ELSE IF id \notin DOMAIN d.containers
    THEN Outcome(404, "Container not found", <<"ownership">>)
  ELSE IF auth.role = "CUSTOMER" \/ auth.role = "SUPPLIER"
    THEN IF ~HasAssignment(d, d.shipments[d.containers[id].shipmentId].poId, auth.userId)
           THEN Outcome(403, "You do not have access to this container",
                        <<"ownership", "assignment">>)
           ELSE Allowed(<<"ownership", "assignment">>)
  ELSE Allowed(<<"ownership">>)

\* requireContainerAccess looking the assignment up before it compares the
\* companies.
requireContainerAccess_AssignmentFirst(d, auth, id) ==
  IF requireAuth(auth).status # 200 THEN requireAuth(auth)
  ELSE IF id \notin DOMAIN d.containers
    THEN Outcome(404, "Container not found", <<"ownership">>)
  ELSE IF /\ (auth.role = "CUSTOMER" \/ auth.role = "SUPPLIER")
          /\ ~HasAssignment(d, d.shipments[d.containers[id].shipmentId].poId, auth.userId)
    THEN Outcome(403, "You do not have access to this container",
                 <<"ownership", "assignment">>)
  ELSE IF d.purchaseOrders[d.shipments[d.containers[id].shipmentId].poId].companyId
            # auth.companyId
    THEN Outcome(404, "Container not found", <<"ownership", "assignment", "company">>)
  ELSE Allowed(<<"ownership", "assignment", "company">>)

\* requireContainerAccess: container lookup, company scoping, then the PO assignment of a
\* CUSTOMER or SUPPLIER.
requireContainerAccess(d, auth, id) ==
  IF requireAuth(auth).status # 200 THEN requireAuth(auth)
  ELSE IF id \notin DOMAIN d.containers
    THEN Outcome(404, "Container not found", <<"ownership">>)
  ELSE IF d.purchaseOrders[d.shipments[d.containers[id].shipmentId].poId].companyId # auth.companyId
    THEN Outcome(404, "Container not found", <<"ownership", "company">>)
  ELSE IF auth.role = "CUSTOMER" \/ auth.role = "SUPPLIER"
    THEN IF ~HasAssignment(d, d.shipments[d.containers[id].shipmentId].poId, auth.userId)
           THEN Outcome(403, "You do not have access to this container",
                        <<"ownership", "company", "assignment">>)
           ELSE Allowed(<<"ownership", "company", "assignment">>)
  ELSE Allowed(<<"ownership", "company">>)

\* requireBaleAccess checking the assignment of every role but SUPERVISOR.
requireBaleAccess_InspectorChecked(d, auth, id) ==
  IF requireAuth(auth).status # 200 THEN requireAuth(auth)
  ELSE IF id \notin DOMAIN d.bales
    THEN Outcome(404, "Bale not found", <<"ownership">>)
  ELSE IF d.purchaseOrders[d.shipments[d.containers[d.bales[id].containerId].shipmentId].poId].companyId # auth.companyId
    THEN Outcome(404, "Bale not found", <<"ownership", "company">>)
  ELSE IF auth.role # "SUPERVISOR"
    THEN IF ~HasAssignment(d, d.bales[id].poId, auth.userId)
           THEN Outcome(403, "You do not have access to this bale",
                        <<"ownership", "company", "assignment">>)
           ELSE Allowed(<<"ownership", "company", "assignment">>)
  ELSE Allowed(<<"ownership", "company">>)

\* requireBaleAccess: bale lookup, company scoping, then the PO assignment of a
\* CUSTOMER or SUPPLIER.
requireBaleAccess(d, auth, id) ==
  IF requireAuth(auth).status # 200 THEN requireAuth(auth)
  ELSE IF id \notin DOMAIN d.bales
    THEN Outcome(404, "Bale not found", <<"ownership">>)
  ELSE IF d.purchaseOrders[d.shipments[d.containers[d.bales[id].containerId].shipmentId].poId].companyId # auth.companyId
    THEN Outcome(404, "Bale not found", <<"ownership", "company">>)
  ELSE IF auth.role = "CUSTOMER" \/ auth.role = "SUPPLIER"
    THEN IF ~HasAssignment(d, d.bales[id].poId, auth.userId)
           THEN Outcome(403, "You do not have access to this bale",
                        <<"ownership", "company", "assignment">>)
           ELSE Allowed(<<"ownership", "company", "assignment">>)
  ELSE Allowed(<<"ownership", "company">>)

\* requireSameCompanyUser: the user is looked up and its company compared
\* with the token's.
requireSameCompanyUser(d, auth, targetUserId) ==
  IF requireAuth(auth).status # 200 THEN requireAuth(auth)
  ELSE IF targetUserId \notin DOMAIN d.users
    THEN Outcome(404, "User not found", <<"ownership">>)
  ELSE IF d.users[targetUserId].companyId # auth.companyId
    THEN Outcome(404, "User not found", <<"ownership", "company">>)
  ELSE Allowed(<<"ownership", "company">>)

isSupervisor(auth) == auth.role = "SUPERVISOR"

canCreateBales(auth) == auth.role = "INSPECTOR" \/ auth.role = "SUPERVISOR"

\* ---------------------------------------------------------------- handlers
\* What a handler leaves behind: the HTTP status, the error code and message
\* of the body ("" on success) and the store after it.
Response(status, code, message, d) ==
  [status |-> status, code |-> code, message |-> message, db |-> d]

\* A guard's HTTPException, rethrown by the route's catch block and answered
\* by app.onError.
Thrown(o, d) == Response(o.status, "HTTP_ERROR", o.message, d)

\* POST /api/purchase-orders: SUPERVISOR only; companyId is forced from the
\* token.
PostPurchaseOrder(d, auth) ==
  IF requireRole(auth, {"SUPERVISOR"}).status # 200
    THEN Thrown(requireRole(auth, {"SUPERVISOR"}), d)
  ELSE Response(201, "", "",
         [d EXCEPT !.purchaseOrders =
            Insert(@, [companyId |-> auth.companyId, status |-> "OPEN"])])

\* POST /api/shipments: SUPERVISOR only, PO access, create, then move an OPEN
\* purchase order to IN_PROGRESS.
PostShipment(d, auth, poId) ==
  IF requireRole(auth, {"SUPERVISOR"}).status # 200
    THEN Thrown(requireRole(auth, {"SUPERVISOR"}), d)
  ELSE IF requirePOAccess(d, auth, poId).status # 200
    THEN Thrown(requirePOAccess(d, auth, poId), d)
  ELSE LET created == [d EXCEPT !.shipments =
                                      Insert(@, [poId |-> poId, status |-> "PENDING"])]
       IN  IF created.purchaseOrders[poId].status = "OPEN"
             THEN Response(201, "", "",
                    [created EXCEPT !.purchaseOrders[poId].status = "IN_PROGRESS"])
             ELSE Response(201, "", "", created)

\* POST /api/shipments, one await at a time.  First the guards and
\* prisma.shipment.create.
PostShipmentCreate(d, auth, poId) ==
  IF requireRole(auth, {"SUPERVISOR"}).status # 200
    THEN Thrown(requireRole(auth, {"SUPERVISOR"}), d)
  ELSE IF requirePOAccess(d, auth, poId).status # 200
    THEN Thrown(requirePOAccess(d, auth, poId), d)
  ELSE Response(201, "", "",
         [d EXCEPT !.shipments = Insert(@, [poId |-> poId, status |-> "PENDING"])])

\* Then prisma.purchaseOrder.findUnique: the row as it is now, or null.
NoPO == [found |-> FALSE, status |-> "null"]

PostShipmentFindPO(d, poId) ==
  IF poId \in DOMAIN d.purchaseOrders
    THEN [found |-> TRUE, status |-> d.purchaseOrders[poId].status]
    ELSE NoPO

\* Then, if the row read was OPEN, prisma.purchaseOrder.update to
\* IN_PROGRESS; the update of a row deleted meanwhile throws into the catch.
PostShipmentUpdatePO(d, poId, po) ==
  IF ~(po.found /\ po.status = "OPEN")
    THEN Response(201, "", "", d)
  ELSE IF poId \notin DOMAIN d.purchaseOrders
    THEN Response(500, "CREATE_ERROR", "Failed to create shipment", d)
  ELSE Response(201, "", "", [d EXCEPT !.purchaseOrders[poId].status = "IN_PROGRESS"])

\* POST /api/containers with the INSPECTOR let through as well.
PostContainer_StaffMayCreate(d, auth, shipmentId) ==
  IF requireRole(auth, {"SUPERVISOR", "INSPECTOR"}).status # 200
    THEN Thrown(requireRole(auth, {"SUPERVISOR", "INSPECTOR"}), d)
  ELSE IF requireShipmentAccess(d, auth, shipmentId).status # 200
    THEN Thrown(requireShipmentAccess(d, auth, shipmentId), d)
  ELSE Response(201, "", "",
         [d EXCEPT !.containers =
            Insert(@, [shipmentId |-> shipmentId, status |-> "PENDING"])])

\* POST /api/containers: SUPERVISOR only, shipment access, create.
PostContainer(d, auth, shipmentId) ==
  IF requireRole(auth, {"SUPERVISOR"}).status # 200
    THEN Thrown(requireRole(auth, {"SUPERVISOR"}), d)
  ELSE IF requireShipmentAccess(d, auth, shipmentId).status # 200
    THEN Thrown(requireShipmentAccess(d, auth, shipmentId), d)
  ELSE Response(201, "", "",
         [d EXCEPT !.containers =
            Insert(@, [shipmentId |-> shipmentId, status |-> "PENDING"])])

\* The body of a bale create, as createBaleSchema accepts it: the three parent
\* ids and the inspector id are strings the client chooses; the readings are
\* those of a dry green bale of 12 percent moisture, sent with grade A.
BaleData(d) ==
  [ containerId : DOMAIN d.containers \cup {NewId(d.containers)},
    shipmentId  : DOMAIN d.shipments \cup {NewId(d.shipments)},
    poId        : DOMAIN d.purchaseOrders \cup {NewId(d.purchaseOrders)},
    inspectorId : InspectorIds,
    decision    : {"ACCEPT"},
    moisturePct : {12 * MoistureScale},
    color       : {"GREEN"},
    wetness     : {"DRY"},
    mold        : {FALSE},
    contamination : {FALSE},
    grade       : {"A"} ]

\* prisma.bale.create({ data }): the row is the request body; the relations
\* of Bale to Container, Shipment, PurchaseOrder and User must name rows.
BaleForeignKeysHold(d, data) ==
  /\ data.containerId \in DOMAIN d.containers
  /\ data.shipmentId \in DOMAIN d.shipments
  /\ data.poId \in DOMAIN d.purchaseOrders
  /\ data.inspectorId \in UserIds

BaleRow(data) ==
  [ containerId |-> data.containerId, shipmentId |-> data.shipmentId,
    poId |-> data.poId, inspectorId |-> data.inspectorId,
    decision |-> data.decision,
    moisturePct |-> data.moisturePct, color |-> data.color, wetness |-> data.wetness,
    mold |-> data.mold, contamination |-> data.contamination, grade |-> data.grade ]

\* POST /api/bales: INSPECTOR or SUPERVISOR, access to data.containerId, then
\* the body is stored as it came.
PostBale(d, auth, data) ==
  IF requireAuth(auth).status # 200 THEN Thrown(requireAuth(auth), d)
  ELSE IF ~canCreateBales(auth) THEN Response(403, "FORBIDDEN",
              "Access denied. Only inspectors and supervisors can create bales.", d)
  ELSE IF requireContainerAccess(d, auth, data.containerId).status # 200
    THEN Thrown(requireContainerAccess(d, auth, data.containerId), d)
  ELSE IF ~BaleForeignKeysHold(d, data)
    THEN Response(500, "CREATE_ERROR", "Failed to create bale", d)
  ELSE Response(201, "", "", [d EXCEPT !.bales = Insert(@, BaleRow(data))])

\* The first guard of the bulk route that throws, in request order, over the
\* containerIds of the request.
RECURSIVE FirstContainerDenial(_, _, _, _)
FirstContainerDenial(d, auth, items, i) ==
  IF i > Len(items) THEN Allowed(<<>>)
  ELSE IF requireContainerAccess(d, auth, items[i].containerId).status # 200
    THEN requireContainerAccess(d, auth, items[i].containerId)
  ELSE FirstContainerDenial(d, auth, items, i + 1)

\* Promise.all over one prisma.bale.create per item: every create runs on its
\* own, so the items whose create succeeds are stored whether or not another
\* item's create fails.
RECURSIVE CreateEach(_, _, _)
CreateEach(d, items, i) ==
  IF i > Len(items) THEN d
  ELSE IF BaleForeignKeysHold(d, items[i])
    THEN CreateEach([d EXCEPT !.bales = Insert(@, BaleRow(items[i]))], items, i + 1)
  ELSE CreateEach(d, items, i + 1)

\* POST /api/bales/bulk.
PostBalesBulk(d, auth, items) ==
  IF requireAuth(auth).status # 200 THEN Thrown(requireAuth(auth), d)
  ELSE IF ~canCreateBales(auth) THEN Response(403, "FORBIDDEN",
              "Access denied. Only inspectors and supervisors can create bales.", d)
  ELSE IF FirstContainerDenial(d, auth, items, 1).status # 200
    THEN Thrown(FirstContainerDenial(d, auth, items, 1), d)
  ELSE IF \E i \in 1..Len(items) : ~BaleForeignKeysHold(d, items[i])
    THEN Response(500, "CREATE_ERROR", "Failed to create bales", CreateEach(d, items, 1))
  ELSE Response(201, "", "", CreateEach(d, items, 1))

\* POST /api/po-assignments: SUPERVISOR only, access to data.poId; the pair
\* (poId, userId) is unique.
PostPOAssignment(d, auth, poId, userId) ==
  IF requireRole(auth, {"SUPERVISOR"}).status # 200
    THEN Thrown(requireRole(auth, {"SUPERVISOR"}), d)
  ELSE IF requirePOAccess(d, auth, poId).status # 200
    THEN Thrown(requirePOAccess(d, auth, poId), d)
  ELSE IF HasAssignment(d, poId, userId)
    THEN Response(409, "DUPLICATE_ASSIGNMENT", "User already assigned to this PO", d)
  ELSE IF userId \notin UserIds
    THEN Response(500, "CREATE_ERROR", "Failed to create PO assignment", d)
  ELSE Response(201, "", "",
         [d EXCEPT !.poUserAssignments = @ \cup {[poId |-> poId, userId |-> userId]}])

\* DELETE /api/po-assignments/:id: SUPERVISOR only; the row is looked up
\* first, then access to its PO is checked.
DeletePOAssignment(d, auth, row) ==
  IF requireRole(auth, {"SUPERVISOR"}).status # 200
    THEN Thrown(requireRole(auth, {"SUPERVISOR"}), d)
  ELSE IF row \notin d.poUserAssignments
    THEN Response(404, "NOT_FOUND", "PO assignment not found", d)
  ELSE IF requirePOAccess(d, auth, row.poId).status # 200
    THEN Thrown(requirePOAccess(d, auth, row.poId), d)
  ELSE Response(204, "", "", [d EXCEPT !.poUserAssignments = @ \ {row}])

\* POST /api/assignments: SUPERVISOR only, access to data.containerId, the
\* range check, create.
PostAssignmentRange(d, auth, containerId, inspectorId, rangeStart, rangeEnd) ==
  IF requireRole(auth, {"SUPERVISOR"}).status # 200
    THEN Thrown(requireRole(auth, {"SUPERVISOR"}), d)
  ELSE IF requireContainerAccess(d, auth, containerId).status # 200
    THEN Thrown(requireContainerAccess(d, auth, containerId), d)
  ELSE IF rangeEnd < rangeStart
    THEN Response(400, "INVALID_RANGE",
                  "rangeEnd must be greater than or equal to rangeStart", d)
  ELSE IF inspectorId \notin UserIds
    THEN Response(500, "CREATE_ERROR", "Failed to create assignment", d)
  ELSE Response(201, "", "",
         [d EXCEPT !.inspectorAssignments =
            Insert(@, [containerId |-> containerId, inspectorId |-> inspectorId,
                       rangeStart |-> rangeStart, rangeEnd |-> rangeEnd])])

\* POST /api/assignments for the range of the first bale alone.
PostAssignment(d, auth, containerId, inspectorId) ==
  PostAssignmentRange(d, auth, containerId, inspectorId, 1, 1)

\* PUT /api/assignments/:id on the validated body: SUPERVISOR only; the row
\* is looked up, then access to its container; the range is checked when
\* the body names both ends; update.
PutAssignment(d, auth, id, data) ==
  IF requireRole(auth, {"SUPERVISOR"}).status # 200
    THEN Thrown(requireRole(auth, {"SUPERVISOR"}), d)
  ELSE IF id \notin DOMAIN d.inspectorAssignments
    THEN Response(404, "NOT_FOUND", "Assignment not found", d)
  ELSE IF requireContainerAccess(d, auth, d.inspectorAssignments[id].containerId).status # 200
    THEN Thrown(requireContainerAccess(d, auth, d.inspectorAssignments[id].containerId), d)
  ELSE IF /\ "rangeStart" \in DOMAIN data /\ "rangeEnd" \in DOMAIN data
          /\ data.rangeEnd < data.rangeStart
    THEN Response(400, "INVALID_RANGE",
                  "rangeEnd must be greater than or equal to rangeStart", d)
  ELSE Response(200, "", "", [d EXCEPT !.inspectorAssignments[id] = ApplyUpdate(@, data)])

\* What prisma.<model>.delete does to a row other rows refer to: the
\* relations' onDelete is Cascade (the referring rows go with it) or Restrict
\* (the delete fails).
ReferentialActions == {"Cascade", "Restrict"}

RefersToPO(d, poId) ==
  \/ \E s \in DOMAIN d.shipments : d.shipments[s].poId = poId
  \/ \E b \in DOMAIN d.bales : d.bales[b].poId = poId
  \/ \E a \in d.poUserAssignments : a.poId = poId
  \/ \E n \in DOMAIN d.poNotes : d.poNotes[n].poId = poId

RefersToShipment(d, shipmentId) ==
  \/ \E c \in DOMAIN d.containers : d.containers[c].shipmentId = shipmentId
  \/ \E b \in DOMAIN d.bales : d.bales[b].shipmentId = shipmentId

RefersToContainer(d, containerId) ==
  \/ \E b \in DOMAIN d.bales : d.bales[b].containerId = containerId
  \/ \E a \in DOMAIN d.inspectorAssignments :
       d.inspectorAssignments[a].containerId = containerId

\* Status values a PUT body carries.
POStatusInputs == {"OPEN", "COMPLETED"}

ShipmentStatusInputs == {"DELIVERED"}

ContainerStatusInputs == {"COMPLETED"}

DecisionInputs == {"ACCEPT", "REJECT"}

\* z.object(shape) that lets the keys it does not name through.
zObject_Passthrough(keys, body) == body

\* zValidator("json", z.object(shape)): c.req.valid("json") holds the keys of
\* the body that the shape names; every other key is stripped.
zObject(keys, body) == Restrict(body, DOMAIN body \cap keys)

\* The keys of the update schemas.
updatePOSchema ==
  {"poNumber", "customerName", "product", "contractQtyMt", "poDate", "paymentTerms",
   "pricePerMt", "status"}

updateShipmentSchema == {"shipmentCode", "supplierName", "shipmentDate", "status"}

updateContainerSchema ==
  {"containerCode", "containerNumber", "itemType", "balePress", "baleSize",
   "avgExpectedWeight", "status"}

updateBaleSchema ==
  {"weightKg", "moisturePct", "color", "stems", "wetness", "contamination",
   "mixedMaterial", "mold", "grade", "decision", "rejectReason", "photo1Url",
   "photo2Url", "notes", "syncStatus"}

UpdateUserSchema == {"name", "email", "pin", "role", "isActive"}

\* The handler of PUT /api/purchase-orders/:id on the validated body:
\* SUPERVISOR only, PO access, update.
UpdatePurchaseOrder(d, auth, id, data) ==
  IF requireRole(auth, {"SUPERVISOR"}).status # 200
    THEN Thrown(requireRole(auth, {"SUPERVISOR"}), d)
  ELSE IF requirePOAccess(d, auth, id).status # 200
    THEN Thrown(requirePOAccess(d, auth, id), d)
  ELSE Response(200, "", "", [d EXCEPT !.purchaseOrders[id] = ApplyUpdate(@, data)])

\* PUT /api/purchase-orders/:id with a body that sets the status.
PutPurchaseOrder(d, auth, id, status) ==
  UpdatePurchaseOrder(d, auth, id, [status |-> status])

\* PUT /api/purchase-orders/:id with any body: the validator, then the
\* handler.
PutPurchaseOrderRequest(d, auth, id, body) ==
  UpdatePurchaseOrder(d, auth, id, zObject(updatePOSchema, body))

\* DELETE /api/purchase-orders/:id: SUPERVISOR only, PO access, delete.
DeletePurchaseOrder(d, auth, id, onDelete) ==
  IF requireRole(auth, {"SUPERVISOR"}).status # 200
    THEN Thrown(requireRole(auth, {"SUPERVISOR"}), d)
  ELSE IF requirePOAccess(d, auth, id).status # 200
    THEN Thrown(requirePOAccess(d, auth, id), d)
  ELSE IF onDelete = "Restrict" /\ RefersToPO(d, id)
    THEN Response(500, "DELETE_ERROR", "Failed to delete purchase order", d)
  ELSE Response(204, "", "", WithoutPO(d, id))

\* The handler of PUT /api/shipments/:id on the validated body: SUPERVISOR
\* only, shipment access, update.
UpdateShipment(d, auth, id, data) ==
  IF requireRole(auth, {"SUPERVISOR"}).status # 200
    THEN Thrown(requireRole(auth, {"SUPERVISOR"}), d)
  ELSE IF requireShipmentAccess(d, auth, id).status # 200
    THEN Thrown(requireShipmentAccess(d, auth, id), d)
  ELSE Response(200, "", "", [d EXCEPT !.shipments[id] = ApplyUpdate(@, data)])

\* PUT /api/shipments/:id with a body that sets the status.
PutShipment(d, auth, id, status) == UpdateShipment(d, auth, id, [status |-> status])

PutShipmentRequest(d, auth, id, body) ==
  UpdateShipment(d, auth, id, zObject(updateShipmentSchema, body))

\* DELETE /api/shipments/:id: SUPERVISOR only, shipment access, delete.
DeleteShipment(d, auth, id, onDelete) ==
  IF requireRole(auth, {"SUPERVISOR"}).status # 200
    THEN Thrown(requireRole(auth, {"SUPERVISOR"}), d)
  ELSE IF requireShipmentAccess(d, auth, id).status # 200
    THEN Thrown(requireShipmentAccess(d, auth, id), d)
  ELSE IF onDelete = "Restrict" /\ RefersToShipment(d, id)
    THEN Response(500, "DELETE_ERROR", "Failed to delete shipment", d)
  ELSE Response(204, "", "", WithoutShipment(d, id))

\* The handler of PUT /api/containers/:id on the validated body: SUPERVISOR
\* only, container access, update.
UpdateContainer(d, auth, id, data) ==
  IF requireRole(auth, {"SUPERVISOR"}).status # 200
    THEN Thrown(requireRole(auth, {"SUPERVISOR"}), d)
  ELSE IF requireContainerAccess(d, auth, id).status # 200
    THEN Thrown(requireContainerAccess(d, auth, id), d)
  ELSE Response(200, "", "", [d EXCEPT !.containers[id] = ApplyUpdate(@, data)])

\* PUT /api/containers/:id with a body that sets the status.
PutContainer(d, auth, id, status) == UpdateContainer(d, auth, id, [status |-> status])

PutContainerRequest(d, auth, id, body) ==
  UpdateContainer(d, auth, id, zObject(updateContainerSchema, body))

\* DELETE /api/containers/:id: SUPERVISOR only, container access, delete.
DeleteContainer(d, auth, id, onDelete) ==
  IF requireRole(auth, {"SUPERVISOR"}).status # 200
    THEN Thrown(requireRole(auth, {"SUPERVISOR"}), d)
  ELSE IF requireContainerAccess(d, auth, id).status # 200
    THEN Thrown(requireContainerAccess(d, auth, id), d)
  ELSE IF onDelete = "Restrict" /\ RefersToContainer(d, id)
    THEN Response(500, "DELETE_ERROR", "Failed to delete container", d)
  ELSE Response(204, "", "", WithoutContainer(d, id))

\* PUT /api/bales/:id with every role but CUSTOMER and SUPPLIER let through.
PutBale_StaffMayEdit(d, auth, id, decision) ==
  IF requireRole(auth, {"SUPERVISOR", "INSPECTOR"}).status # 200
    THEN Thrown(requireRole(auth, {"SUPERVISOR", "INSPECTOR"}), d)
  ELSE IF requireBaleAccess(d, auth, id).status # 200
    THEN Thrown(requireBaleAccess(d, auth, id), d)
  ELSE Response(200, "", "", [d EXCEPT !.bales[id].decision = decision])

\* The handler of PUT /api/bales/:id on the validated body: SUPERVISOR only,
\* bale access, update.
UpdateBale(d, auth, id, data) ==
  IF requireRole(auth, {"SUPERVISOR"}).status # 200
    THEN Thrown(requireRole(auth, {"SUPERVISOR"}), d)
  ELSE IF requireBaleAccess(d, auth, id).status # 200
    THEN Thrown(requireBaleAccess(d, auth, id), d)
  ELSE Response(200, "", "", [d EXCEPT !.bales[id] = ApplyUpdate(@, data)])

\* PUT /api/bales/:id with a body that sets the decision.
PutBale(d, auth, id, decision) == UpdateBale(d, auth, id, [decision |-> decision])

PutBaleRequest(d, auth, id, body) == UpdateBale(d, auth, id, zObject(updateBaleSchema, body))

\* DELETE /api/bales/:id: SUPERVISOR only, bale access, delete.
DeleteBale(d, auth, id) ==
  IF requireRole(auth, {"SUPERVISOR"}).status # 200
    THEN Thrown(requireRole(auth, {"SUPERVISOR"}), d)
  ELSE IF requireBaleAccess(d, auth, id).status # 200
    THEN Thrown(requireBaleAccess(d, auth, id), d)
  ELSE Response(204, "", "", WithoutBale(d, id))

\* The handler of PUT /api/users/:id on the validated body: SUPERVISOR only,
\* a user of the caller's company, update.
UpdateUser(d, auth, id, data) ==
  IF requireRole(auth, {"SUPERVISOR"}).status # 200
    THEN Thrown(requireRole(auth, {"SUPERVISOR"}), d)
  ELSE IF requireSameCompanyUser(d, auth, id).status # 200
    THEN Thrown(requireSameCompanyUser(d, auth, id), d)
  ELSE Response(200, "", "", [d EXCEPT !.users[id] = ApplyUpdate(@, data)])

PutUserRequest(d, auth, id, body) == UpdateUser(d, auth, id, zObject(UpdateUserSchema, body))

\* DELETE /api/users/:id: SUPERVISOR only, a user of the caller's company;
\* the row stays and isActive becomes false.
DeleteUser(d, auth, id) ==
  IF requireRole(auth, {"SUPERVISOR"}).status # 200
    THEN Thrown(requireRole(auth, {"SUPERVISOR"}), d)
  ELSE IF requireSameCompanyUser(d, auth, id).status # 200
    THEN Thrown(requireSameCompanyUser(d, auth, id), d)
  ELSE Response(204, "", "", [d EXCEPT !.users[id].isActive = FALSE])

\* POST /api/auth/login: the user is looked up by id, company and isActive;
\* the PIN is verified; a token over {userId, companyId, role} is signed. The
\* token is carried here as the payload verifyAuthToken reads back from it
\* during the seven days before it expires.
PostLogin(d, companyId, userId, pinValid) ==
  IF ~(/\ userId \in DOMAIN d.users
       /\ d.users[userId].companyId = companyId
       /\ d.users[userId].isActive)
    THEN [status |-> 401, code |-> "UNAUTHORIZED", message |-> "Invalid credentials",
          token |-> NoAuth]
  ELSE IF ~pinValid
    THEN [status |-> 401, code |-> "UNAUTHORIZED", message |-> "Invalid PIN",
          token |-> NoAuth]
  ELSE [status |-> 200, code |-> "", message |-> "",
        token |-> [userId |-> userId, companyId |-> d.users[userId].companyId,
                   role |-> d.users[userId].role]]

\* The bodies of a PUT that names a status or decision, a parent reference
\* (of a row that exists), or both.
Companies == {"c1", "c2"}

POUpdateBodies ==
  { [status |-> s] : s \in POStatusInputs }
    \cup { [companyId |-> c] : c \in Companies }
    \cup { [companyId |-> c, status |-> s] : c \in Companies, s \in POStatusInputs }

ShipmentUpdateBodies(d) ==
  { [status |-> s] : s \in ShipmentStatusInputs }
    \cup { [poId |-> p] : p \in DOMAIN d.purchaseOrders }
    \cup { [poId |-> p, status |-> s] :
             p \in DOMAIN d.purchaseOrders, s \in ShipmentStatusInputs }

ContainerUpdateBodies(d) ==
  { [status |-> s] : s \in ContainerStatusInputs }
    \cup { [shipmentId |-> x] : x \in DOMAIN d.shipments }
    \cup { [shipmentId |-> x, status |-> s] :
             x \in DOMAIN d.shipments, s \in ContainerStatusInputs }

BaleUpdateBodies(d) ==
  { [decision |-> x] : x \in DecisionInputs }
    \cup { [poId |-> p] : p \in DOMAIN d.purchaseOrders }
    \cup { [containerId |-> c, shipmentId |-> x, poId |-> p, decision |-> y] :
             c \in DOMAIN d.containers, x \in DOMAIN d.shipments,
             p \in DOMAIN d.purchaseOrders, y \in DecisionInputs }

\* The users a PUT or DELETE of /api/users/:id names.
UserIdInputs == {"cust1", "sup2"}

UserUpdateBodies ==
  { [isActive |-> a] : a \in BOOLEAN }
    \cup { [companyId |-> c] : c \in Companies }
    \cup { [companyId |-> c, isActive |-> a] : c \in Companies, a \in BOOLEAN }

\* The content a note body carries.
NoteContentInputs == {"first", "second"}

\* POST /api/po-notes: any principal with access to data.poId; the author is
\* forced from the token.
PostNote(d, auth, poId, content) ==
  IF requireAuth(auth).status # 200 THEN Thrown(requireAuth(auth), d)
  ELSE IF requirePOAccess(d, auth, poId).status # 200
    THEN Thrown(requirePOAccess(d, auth, poId), d)
  ELSE Response(201, "", "",
         [d EXCEPT !.poNotes =
            Insert(@, [poId |-> poId, userId |-> auth.userId, content |-> content])])

\* PUT /api/po-notes/:id letting every role but CUSTOMER and SUPPLIER edit any
\* note.
PutNote_StaffEditsAny(d, auth, id, content) ==
  IF requireAuth(auth).status # 200 THEN Thrown(requireAuth(auth), d)
  ELSE IF id \notin DOMAIN d.poNotes
    THEN Response(404, "NOT_FOUND", "PO note not found", d)
  ELSE IF requirePOAccess(d, auth, d.poNotes[id].poId).status # 200
    THEN Thrown(requirePOAccess(d, auth, d.poNotes[id].poId), d)
  ELSE IF /\ auth.role # "SUPERVISOR" /\ auth.role # "INSPECTOR"
          /\ d.poNotes[id].userId # auth.userId
    THEN Response(403, "FORBIDDEN", "You can only edit your own notes", d)
  ELSE Response(200, "", "", [d EXCEPT !.poNotes[id].content = content])

\* PUT /api/po-notes/:id: the note is looked up, then access to its PO, then
\* SUPERVISOR or author.
PutNote(d, auth, id, content) ==
  IF requireAuth(auth).status # 200 THEN Thrown(requireAuth(auth), d)
  ELSE IF id \notin DOMAIN d.poNotes
    THEN Response(404, "NOT_FOUND", "PO note not found", d)
  ELSE IF requirePOAccess(d, auth, d.poNotes[id].poId).status # 200
    THEN Thrown(requirePOAccess(d, auth, d.poNotes[id].poId), d)
  ELSE IF auth.role # "SUPERVISOR" /\ d.poNotes[id].userId # auth.userId
    THEN Response(403, "FORBIDDEN", "You can only edit your own notes", d)
  ELSE Response(200, "", "", [d EXCEPT !.poNotes[id].content = content])

\* DELETE /api/po-notes/:id: the note is looked up, then access to its PO,
\* then SUPERVISOR or author.
DeleteNote(d, auth, id) ==
  IF requireAuth(auth).status # 200 THEN Thrown(requireAuth(auth), d)
  ELSE IF id \notin DOMAIN d.poNotes
    THEN Response(404, "NOT_FOUND", "PO note not found", d)
  ELSE IF requirePOAccess(d, auth, d.poNotes[id].poId).status # 200
    THEN Thrown(requirePOAccess(d, auth, d.poNotes[id].poId), d)
  ELSE IF auth.role # "SUPERVISOR" /\ d.poNotes[id].userId # auth.userId
    THEN Response(403, "FORBIDDEN", "You can only delete your own notes", d)
  ELSE Response(204, "", "", [d EXCEPT !.poNotes = Restrict(@, DOMAIN @ \ {id})])

\* ---------------------------------------------------------- store failures
\* The error codes a failing findUnique carries: the server cannot be
\* reached (P1001), the connection pool timed out (P2024), or none (an
\* initialization error or a panic of the engine).  P2025 and P2002 belong
\* to writes, findUnique answers a missing row with null.
LookupErrorCodes == {"P1001", "P2024", ""}

\* A lookup of a guard (prisma.<model>.findUnique) answers, or the store
\* throws.  A fault names the lookup of the run that throws, if the run gets
\* to issue it, and the code of what it throws.
NoFault == [lookup |-> "none", code |-> ""]

LookupFaults == {NoFault} \cup [lookup : {"ownership", "assignment"}, code : LookupErrorCodes]

\* The guards await their lookups outside any try block, so what the store
\* throws leaves the guard as it is: an error that is no HTTPException and
\* carries no status (0 here); message holds its code.
StoreError(code, steps) == Outcome(0, code, steps)

\* A guard that answers a failed lookup as it answers a missing row.
WithFault_FailureIsAbsence(o, fault) ==
  IF fault.lookup = "ownership" /\ (\E i \in DOMAIN o.steps : o.steps[i] = "ownership")
    THEN Outcome(404, "Purchase order not found", <<"ownership">>)
  ELSE IF fault.lookup = "assignment" /\ (\E i \in DOMAIN o.steps : o.steps[i] = "assignment")
    THEN Outcome(403, "You do not have access to this purchase order", o.steps)
  ELSE o

\* The outcome of a guard run whose outcome over an answering store is o.
WithFault(o, fault) ==
  IF fault.lookup = "ownership" /\ (\E i \in DOMAIN o.steps : o.steps[i] = "ownership")
    THEN StoreError(fault.code, <<"ownership">>)
  ELSE IF fault.lookup = "assignment" /\ (\E i \in DOMAIN o.steps : o.steps[i] = "assignment")
    THEN StoreError(fault.code, o.steps)
  ELSE o

requirePOAccessOnFault(d, auth, id, fault) == WithFault(requirePOAccess(d, auth, id), fault)

\* What a read of one row answers: status, error code and message, and the
\* ids of the rows in data.
Fetched(status, code, message, rows) ==
  [status |-> status, code |-> code, message |-> message, data |-> rows]

\* GET /api/purchase-orders/:id: PO access, then the row; the catch block
\* rethrows what has a status and answers 500 FETCH_ERROR to the rest.
GetPurchaseOrder(d, auth, id, fault) ==
  IF requirePOAccessOnFault(d, auth, id, fault).status = 0
    THEN Fetched(500, "FETCH_ERROR", "Failed to fetch purchase order", {})
  ELSE IF requirePOAccessOnFault(d, auth, id, fault).status # 200
    THEN Fetched(requirePOAccessOnFault(d, auth, id, fault).status, "HTTP_ERROR",
                 requirePOAccessOnFault(d, auth, id, fault).message, {})
  ELSE IF id \notin DOMAIN d.purchaseOrders
    THEN Fetched(404, "NOT_FOUND", "Purchase order not found", {})
  ELSE Fetched(200, "", "", {id})

\* PUT /api/purchase-orders/:id over a store whose lookups may throw: the
\* catch block rethrows what has a status, answers 404 to P2025, 409 to
\* P2002 and 500 UPDATE_ERROR to the rest.
PutPurchaseOrderOnFault(d, auth, id, status, fault) ==
  IF requireRole(auth, {"SUPERVISOR"}).status # 200
    THEN Thrown(requireRole(auth, {"SUPERVISOR"}), d)
  ELSE IF requirePOAccessOnFault(d, auth, id, fault).status = 0
    THEN IF requirePOAccessOnFault(d, auth, id, fault).message = "P2025"
           THEN Response(404, "NOT_FOUND", "Purchase order not found", d)
         ELSE IF requirePOAccessOnFault(d, auth, id, fault).message = "P2002"
           THEN Response(409, "DUPLICATE_PO", "PO number already exists for this company", d)
         ELSE Response(500, "UPDATE_ERROR", "Failed to update purchase order", d)
  ELSE PutPurchaseOrder(d, auth, id, status)

\* DELETE /api/purchase-orders/:id over a store whose lookups may throw: the
\* catch block rethrows what has a status, answers 404 to P2025 and 500
\* DELETE_ERROR to the rest.
DeletePurchaseOrderOnFault(d, auth, id, onDelete, fault) ==
  IF requireRole(auth, {"SUPERVISOR"}).status # 200
    THEN Thrown(requireRole(auth, {"SUPERVISOR"}), d)
  ELSE IF requirePOAccessOnFault(d, auth, id, fault).status = 0
    THEN IF requirePOAccessOnFault(d, auth, id, fault).message = "P2025"
           THEN Response(404, "NOT_FOUND", "Purchase order not found", d)
         ELSE Response(500, "DELETE_ERROR", "Failed to delete purchase order", d)
  ELSE DeletePurchaseOrder(d, auth, id, onDelete)

\* GET /api/po-notes/:id: the note is looked up, then access to its PO.
GetNote(d, auth, id) ==
  IF requireAuth(auth).status # 200
    THEN Fetched(401, "HTTP_ERROR", requireAuth(auth).message, {})
  ELSE IF id \notin DOMAIN d.poNotes
    THEN Fetched(404, "NOT_FOUND", "PO note not found", {})
  ELSE IF requirePOAccess(d, auth, d.poNotes[id].poId).status # 200
    THEN Fetched(requirePOAccess(d, auth, d.poNotes[id].poId).status, "HTTP_ERROR",
                 requirePOAccess(d, auth, d.poNotes[id].poId).message, {})
  ELSE Fetched(200, "", "", {id})

\* GET /api/po-assignments/:id: SUPERVISOR only; the row is looked up, then
\* access to its PO.
GetPOAssignment(d, auth, row) ==
  IF requireRole(auth, {"SUPERVISOR"}).status # 200
    THEN Fetched(requireRole(auth, {"SUPERVISOR"}).status, "HTTP_ERROR",
                 requireRole(auth, {"SUPERVISOR"}).message, {})
  ELSE IF row \notin d.poUserAssignments
    THEN Fetched(404, "NOT_FOUND", "PO assignment not found", {})
  ELSE IF requirePOAccess(d, auth, row.poId).status # 200
    THEN Fetched(requirePOAccess(d, auth, row.poId).status, "HTTP_ERROR",
                 requirePOAccess(d, auth, row.poId).message, {})
  ELSE Fetched(200, "", "", {row})

\* GET /api/assignments/:id: the row is looked up, then access to its
\* container.
GetAssignment(d, auth, id) ==
  IF requireAuth(auth).status # 200
    THEN Fetched(401, "HTTP_ERROR", requireAuth(auth).message, {})
  ELSE IF id \notin DOMAIN d.inspectorAssignments
    THEN Fetched(404, "NOT_FOUND", "Assignment not found", {})
  ELSE IF requireContainerAccess(d, auth, d.inspectorAssignments[id].containerId).status # 200
    THEN Fetched(requireContainerAccess(d, auth, d.inspectorAssignments[id].containerId).status,
                 "HTTP_ERROR",
                 requireContainerAccess(d, auth, d.inspectorAssignments[id].containerId).message,
                 {})
  ELSE Fetched(200, "", "", {id})

\* ------------------------------------------------------------------- reads
\* What a list route answers: the status, the thrown message ("" on success)
\* and the ids of the rows in data.
Listing(status, message, rows) == [status |-> status, message |-> message, data |-> rows]

\* A query parameter that is absent (or empty, which the routes treat alike):
\* 0 for an id, "" for a user id.
BaleQueries ==
  [ containerId : 0..(MaxContainer + 1), shipmentId : 0..(MaxShipment + 1),
    poId : 0..(MaxPO + 1), inspectorId : {""} \cup InspectorIds ]

AssignmentQueries ==
  [ containerId : 0..(MaxContainer + 1), inspectorId : {""} \cup InspectorIds ]

\* GET /api/bales: the guard runs only for a containerId filter; the company
\* scope is added to the where clause only when containerId, shipmentId and
\* poId are all absent.
GetBales(d, auth, q) ==
  IF requireAuth(auth).status # 200
    THEN Listing(401, requireAuth(auth).message, {})
  ELSE IF q.containerId # 0 /\ requireContainerAccess(d, auth, q.containerId).status # 200
    THEN Listing(requireContainerAccess(d, auth, q.containerId).status,
                 requireContainerAccess(d, auth, q.containerId).message, {})
  ELSE Listing(200, "",
         { b \in DOMAIN d.bales :
             /\ q.containerId # 0 => d.bales[b].containerId = q.containerId
             /\ q.shipmentId # 0 => d.bales[b].shipmentId = q.shipmentId
             /\ q.poId # 0 => d.bales[b].poId = q.poId
             /\ q.inspectorId # "" => d.bales[b].inspectorId = q.inspectorId
             /\ (q.containerId = 0 /\ q.shipmentId = 0 /\ q.poId = 0)
                  => d.purchaseOrders[d.shipments[d.containers[d.bales[b].containerId]
                       .shipmentId].poId].companyId = auth.companyId })

\* GET /api/assignments: 400 without containerId and inspectorId; the guard
\* runs only for a containerId filter.
GetAssignments(d, auth, q) ==
  IF requireAuth(auth).status # 200
    THEN Listing(401, requireAuth(auth).message, {})
  ELSE IF q.containerId = 0 /\ q.inspectorId = ""
    THEN Listing(400, "containerId or inspectorId is required", {})
  ELSE IF q.containerId # 0 /\ requireContainerAccess(d, auth, q.containerId).status # 200
    THEN Listing(requireContainerAccess(d, auth, q.containerId).status,
                 requireContainerAccess(d, auth, q.containerId).message, {})
  ELSE Listing(200, "",
         { a \in DOMAIN d.inspectorAssignments :
             /\ q.containerId # 0 => d.inspectorAssignments[a].containerId = q.containerId
             /\ q.inspectorId # "" => d.inspectorAssignments[a].inspectorId = q.inspectorId })

\* GET /api/purchase-orders: the token's company, and for a CUSTOMER or
\* SUPPLIER only the purchase orders with an assignment of that user.
GetPurchaseOrders(d, auth) ==
  IF requireAuth(auth).status # 200
    THEN Listing(401, requireAuth(auth).message, {})
  ELSE Listing(200, "",
         { po \in DOMAIN d.purchaseOrders :
             /\ d.purchaseOrders[po].companyId = auth.companyId
             /\ (auth.role = "CUSTOMER" \/ auth.role = "SUPPLIER")
                  => HasAssignment(d, po, auth.userId) })

\* ------------------------------------------------------------ rate limiter
\* Time is held in minutes.  windowMs and max of authRateLimit and of
\* apiRateLimit.
AuthWindow == 15

AuthMax == 10

ApiWindow == 1

ApiMax == 100

\* One run of the middleware rateLimit({ windowMs, max }) for a key at a
\* time over the Map m: whether next() is called (otherwise 429), and the Map
\* after it.
rateLimit(m, key, t, windowMs, max) ==
  IF key \notin DOMAIN m \/ t > m[key].resetTime
    THEN [ passed |-> TRUE,
           store |-> [k \in DOMAIN m \cup {key} |->
                        IF k = key THEN [count |-> 1, resetTime |-> t + windowMs]
                        ELSE m[k]] ]
  ELSE [ passed |-> m[key].count + 1 <= max,
         store |-> [m EXCEPT ![key].count = @ + 1] ]

apiRateLimit(m, key, t) == rateLimit(m, key, t, ApiWindow, ApiMax)

authRateLimit(m, key, t) == rateLimit(m, key, t, AuthWindow, AuthMax)

\* app.use("*", apiRateLimit) then app.use("/api/auth/*", authRateLimit): a
\* request to /api/auth/* runs the second only if the first called next().
AuthChain(m, key, t) ==
  IF ~apiRateLimit(m, key, t).passed THEN apiRateLimit(m, key, t)
  ELSE authRateLimit(apiRateLimit(m, key, t).store, key, t)

\* ------------------------------------------------------- grade classifier
Colors == {"DARK_GREEN", "GREEN", "LIGHT_GREEN", "BROWN"}

WetnessValues == {"DRY", "DAMP", "WET"}

Grades == {"A", "B", "C", "D", "REJECT"}

\* moisture: number | null.  A number is held in units of 1/MoistureScale of
\* a percent, so that readings between two whole percents exist.
NullMoisture == -1

MaxMoisturePct == 100

Pct(n) == n * MoistureScale

Moistures == {NullMoisture} \cup (0..Pct(MaxMoisturePct))

GradeInputs ==
  [ moisture : Moistures, color : Colors, wetness : WetnessValues,
    mold : BOOLEAN, contamination : BOOLEAN ]

\* calculateBaleGrade with a grade B rule that forgets the DAMP bales and no
\* final return: the bales no rule claims come back without a grade.
calculateBaleGrade_NoDefault(moisture, color, wetness, mold, contamination) ==
  IF mold \/ contamination \/ wetness = "WET" THEN "REJECT"
  ELSE IF /\ (color = "DARK_GREEN" \/ color = "GREEN")
          /\ moisture # NullMoisture /\ moisture >= Pct(10) /\ moisture <= Pct(14)
          /\ wetness = "DRY"
    THEN "A"
  ELSE IF moisture # NullMoisture /\ moisture > Pct(30) THEN "D"
  ELSE IF moisture # NullMoisture /\ moisture > Pct(25) THEN "C"
  ELSE IF \/ color = "LIGHT_GREEN" \/ color = "BROWN"
          \/ (moisture # NullMoisture /\ moisture > Pct(14) /\ moisture <= Pct(25))
    THEN "B"
  ELSE IF (color = "DARK_GREEN" \/ color = "GREEN") /\ wetness = "DRY"
    THEN "A"
  ELSE "undefined"

\* calculateBaleGrade testing the grade B rule before the grade D and grade C
\* rules.
calculateBaleGrade_BBeforeD(moisture, color, wetness, mold, contamination) ==
  IF mold \/ contamination \/ wetness = "WET" THEN "REJECT"
  ELSE IF /\ (color = "DARK_GREEN" \/ color = "GREEN")
          /\ moisture # NullMoisture /\ moisture >= Pct(10) /\ moisture <= Pct(14)
          /\ wetness = "DRY"
    THEN "A"
  ELSE IF \/ color = "LIGHT_GREEN" \/ color = "BROWN"
          \/ (moisture # NullMoisture /\ moisture > Pct(14) /\ moisture <= Pct(25))
          \/ wetness = "DAMP"
    THEN "B"
  ELSE IF moisture # NullMoisture /\ moisture > Pct(30) THEN "D"
  ELSE IF moisture # NullMoisture /\ moisture > Pct(25) THEN "C"
  ELSE IF (color = "DARK_GREEN" \/ color = "GREEN") /\ wetness = "DRY"
    THEN "A"
  ELSE "B"

\* calculateBaleGrade testing moisture > 25 before moisture > 30.
calculateBaleGrade_CBeforeD(moisture, color, wetness, mold, contamination) ==
  IF mold \/ contamination \/ wetness = "WET" THEN "REJECT"
  ELSE IF /\ (color = "DARK_GREEN" \/ color = "GREEN")
          /\ moisture # NullMoisture /\ moisture >= Pct(10) /\ moisture <= Pct(14)
          /\ wetness = "DRY"
    THEN "A"
  ELSE IF moisture # NullMoisture /\ moisture > Pct(25) THEN "C"
  ELSE IF moisture # NullMoisture /\ moisture > Pct(30) THEN "D"
  ELSE IF \/ color = "LIGHT_GREEN" \/ color = "BROWN"
          \/ (moisture # NullMoisture /\ moisture > Pct(14) /\ moisture <= Pct(25))
          \/ wetness = "DAMP"
    THEN "B"
  ELSE IF (color = "DARK_GREEN" \/ color = "GREEN") /\ wetness = "DRY"
    THEN "A"
  ELSE "B"

\* calculateBaleGrade with a grade B moisture band that starts above 15.
calculateBaleGrade_BFrom15(moisture, color, wetness, mold, contamination) ==
  IF mold \/ contamination \/ wetness = "WET" THEN "REJECT"
  ELSE IF /\ (color = "DARK_GREEN" \/ color = "GREEN")
          /\ moisture # NullMoisture /\ moisture >= Pct(10) /\ moisture <= Pct(14)
          /\ wetness = "DRY"
    THEN "A"
  ELSE IF moisture # NullMoisture /\ moisture > Pct(30) THEN "D"
  ELSE IF moisture # NullMoisture /\ moisture > Pct(25) THEN "C"
  ELSE IF \/ color = "LIGHT_GREEN" \/ color = "BROWN"
          \/ (moisture # NullMoisture /\ moisture > Pct(15) /\ moisture <= Pct(25))
          \/ wetness = "DAMP"
    THEN "B"
  ELSE IF (color = "DARK_GREEN" \/ color = "GREEN") /\ wetness = "DRY"
    THEN "A"
  ELSE "B"

calculateBaleGrade(moisture, color, wetness, mold, contamination) ==
  IF mold \/ contamination \/ wetness = "WET" THEN "REJECT"
  ELSE IF /\ (color = "DARK_GREEN" \/ color = "GREEN")
          /\ moisture # NullMoisture /\ moisture >= Pct(10) /\ moisture <= Pct(14)
          /\ wetness = "DRY"
    THEN "A"
  ELSE IF moisture # NullMoisture /\ moisture > Pct(30) THEN "D"
  ELSE IF moisture # NullMoisture /\ moisture > Pct(25) THEN "C"
  ELSE IF \/ color = "LIGHT_GREEN" \/ color = "BROWN"
          \/ (moisture # NullMoisture /\ moisture > Pct(14) /\ moisture <= Pct(25))
          \/ wetness = "DAMP"
    THEN "B"
  ELSE IF (color = "DARK_GREEN" \/ color = "GREEN") /\ wetness = "DRY"
    THEN "A"
  ELSE "B"

\* The if-chain with a grade B test that leaves out the DAMP bales.
calculateBaleGradeBranch_DampForgotten(moisture, color, wetness, mold, contamination) ==
  IF mold \/ contamination \/ wetness = "WET" THEN 1
  ELSE IF /\ (color = "DARK_GREEN" \/ color = "GREEN")
          /\ moisture # NullMoisture /\ moisture >= Pct(10) /\ moisture <= Pct(14)
          /\ wetness = "DRY"
    THEN 2
  ELSE IF moisture # NullMoisture /\ moisture > Pct(30) THEN 3
  ELSE IF moisture # NullMoisture /\ moisture > Pct(25) THEN 4
  ELSE IF \/ color = "LIGHT_GREEN" \/ color = "BROWN"
          \/ (moisture # NullMoisture /\ moisture > Pct(14) /\ moisture <= Pct(25))
    THEN 5
  ELSE IF (color = "DARK_GREEN" \/ color = "GREEN") /\ wetness = "DRY"
    THEN 6
  ELSE 7

\* The return statement of calculateBaleGrade that a call reaches, counted
\* from the top of the function: 1 to 6 are the returns inside the six ifs,
\* 7 is the final return.
calculateBaleGradeBranch(moisture, color, wetness, mold, contamination) ==
  IF mold \/ contamination \/ wetness = "WET" THEN 1
  ELSE IF /\ (color = "DARK_GREEN" \/ color = "GREEN")
          /\ moisture # NullMoisture /\ moisture >= Pct(10) /\ moisture <= Pct(14)
          /\ wetness = "DRY"
    THEN 2
  ELSE IF moisture # NullMoisture /\ moisture > Pct(30) THEN 3
  ELSE IF moisture # NullMoisture /\ moisture > Pct(25) THEN 4
  ELSE IF \/ color = "LIGHT_GREEN" \/ color = "BROWN"
          \/ (moisture # NullMoisture /\ moisture > Pct(14) /\ moisture <= Pct(25))
          \/ wetness = "DAMP"
    THEN 5
  ELSE IF (color = "DARK_GREEN" \/ color = "GREEN") /\ wetness = "DRY"
    THEN 6
  ELSE 7

\* The grades the seven return statements name, in order.
ReturnedGrade == <<"REJECT", "A", "D", "C", "B", "A", "B">>

Branch(in) ==
  calculateBaleGradeBranch(in.moisture, in.color, in.wetness, in.mold, in.contamination)

Grade(in) ==
  calculateBaleGrade(in.moisture, in.color, in.wetness, in.mold, in.contamination)

\* ------------------------------------------------------------ the machine
NoGrade == "none"

IdleGradeInput ==
  [ moisture |-> NullMoisture, color |-> "GREEN", wetness |-> "DRY",
    mold |-> FALSE, contamination |-> FALSE ]

StoreInit ==
  /\ purchaseOrders = <<>>
  /\ shipments = <<>>
  /\ containers = <<>>
  /\ bales = <<>>
  /\ poUserAssignments = {}
  /\ inspectorAssignments = <<>>
  /\ poNotes = <<>>
  /\ users = [u \in UserIds |->
                [companyId |-> UserTable[u].companyId, role |-> UserTable[u].role,
                 isActive |-> TRUE]]

\* No POST /api/shipments is under way.
NoShipmentReq == [pc |-> "idle", poId |-> 0, po |-> NoPO]

\* keyGenerator: the client's IP from x-forwarded-for or x-real-ip.
ClientKeys == {"ip1"}

\* The server starts: no token is out, the limiter's Map is empty.
EdgeInit ==
  /\ tokens = {}
  /\ now = 0
  /\ rateStore = <<>>
  /\ authPassed = [k \in ClientKeys |-> 0]
  /\ shipmentReq = NoShipmentReq

Init ==
  /\ StoreInit
  /\ EdgeInit
  /\ gradeIn = IdleGradeInput
  /\ gradeOut = NoGrade
  /\ gradeAgain = NoGrade

CreatePO ==
  /\ Cardinality(DOMAIN purchaseOrders) < MaxPO
  /\ \E auth \in Auths : Commit(PostPurchaseOrder(Store, auth).db)
  /\ UNCHANGED auxVars

CreateShipment ==
  /\ Cardinality(DOMAIN shipments) < MaxShipment
  /\ \E auth \in Auths, poId \in POIds : Commit(PostShipment(Store, auth, poId).db)
  /\ UNCHANGED auxVars

CreateContainer ==
  /\ Cardinality(DOMAIN containers) < MaxContainer
  /\ \E auth \in Auths, shipmentId \in ShipmentIds :
       Commit(PostContainer(Store, auth, shipmentId).db)
  /\ UNCHANGED auxVars

CreateBale ==
  /\ Cardinality(DOMAIN bales) < MaxBale
  /\ \E auth \in Auths, data \in BaleData(Store) : Commit(PostBale(Store, auth, data).db)
  /\ UNCHANGED auxVars

\* Bulk requests of up to MaxBulk items that still fit the bale table.
BulkRequests(d) ==
  UNION { [1..n -> BaleData(d)] :
            n \in { m \in 0..MaxBulk : Cardinality(DOMAIN d.bales) + m <= MaxBale } }

CreateBalesBulk ==
  /\ \E auth \in Auths, items \in BulkRequests(Store) :
       Commit(PostBalesBulk(Store, auth, items).db)
  /\ UNCHANGED auxVars

AssignmentRows == [poId : POIds, userId : AssignableUserIds]

CreatePOAssignment ==
  /\ Cardinality(poUserAssignments) < MaxPOAssignment
  /\ \E auth \in Auths, row \in AssignmentRows :
       Commit(PostPOAssignment(Store, auth, row.poId, row.userId).db)
  /\ UNCHANGED auxVars

RemovePOAssignment ==
  /\ \E auth \in Auths, row \in AssignmentRows :
       Commit(DeletePOAssignment(Store, auth, row).db)
  /\ UNCHANGED auxVars

CreateAssignment ==
  /\ Cardinality(DOMAIN inspectorAssignments) < MaxInspectorAssignment
  /\ \E auth \in Auths, containerId \in ContainerIds, inspectorId \in InspectorIds :
       Commit(PostAssignment(Store, auth, containerId, inspectorId).db)
  /\ UNCHANGED auxVars

EditPO ==
  /\ \E auth \in Auths, id \in POIds, status \in POStatusInputs :
       Commit(PutPurchaseOrder(Store, auth, id, status).db)
  /\ UNCHANGED auxVars

RemovePO ==
  /\ \E auth \in Auths, id \in POIds, onDelete \in ReferentialActions :
       Commit(DeletePurchaseOrder(Store, auth, id, onDelete).db)
  /\ UNCHANGED auxVars

EditShipment ==
  /\ \E auth \in Auths, id \in ShipmentIds, status \in ShipmentStatusInputs :
       Commit(PutShipment(Store, auth, id, status).db)
  /\ UNCHANGED auxVars

RemoveShipment ==
  /\ \E auth \in Auths, id \in ShipmentIds, onDelete \in ReferentialActions :
       Commit(DeleteShipment(Store, auth, id, onDelete).db)
  /\ UNCHANGED auxVars

EditContainer ==
  /\ \E auth \in Auths, id \in ContainerIds, status \in ContainerStatusInputs :
       Commit(PutContainer(Store, auth, id, status).db)
  /\ UNCHANGED auxVars

RemoveContainer ==
  /\ \E auth \in Auths, id \in ContainerIds, onDelete \in ReferentialActions :
       Commit(DeleteContainer(Store, auth, id, onDelete).db)
  /\ UNCHANGED auxVars

EditBale ==
  /\ \E auth \in Auths, id \in BaleIds, decision \in DecisionInputs :
       Commit(PutBale(Store, auth, id, decision).db)
  /\ UNCHANGED auxVars

RemoveBale ==
  /\ \E auth \in Auths, id \in BaleIds : Commit(DeleteBale(Store, auth, id).db)
  /\ UNCHANGED auxVars

Next ==
  \/ CreatePO
  \/ CreateShipment
  \/ CreateContainer
  \/ CreateBale
  \/ CreateBalesBulk
  \/ CreatePOAssignment
  \/ RemovePOAssignment
  \/ CreateAssignment

Spec == Init /\ [][Next]_vars

\* The life cycle of the entities and of the PO assignments: the routes that
\* create, update and delete them.
LifecycleNext ==
  \/ CreatePO
  \/ CreateShipment
  \/ CreateContainer
  \/ CreateBale
  \/ CreatePOAssignment
  \/ RemovePOAssignment
  \/ EditPO
  \/ RemovePO
  \/ EditShipment
  \/ RemoveShipment
  \/ EditContainer
  \/ RemoveContainer
  \/ EditBale
  \/ RemoveBale

SpecLifecycle == Init /\ [][LifecycleNext]_vars

CreateNote ==
  /\ Cardinality(DOMAIN poNotes) < MaxNote
  /\ \E auth \in Auths, poId \in POIds, content \in NoteContentInputs :
       Commit(PostNote(Store, auth, poId, content).db)
  /\ UNCHANGED auxVars

EditNote ==
  /\ \E auth \in Auths, id \in NoteIds, content \in NoteContentInputs :
       Commit(PutNote(Store, auth, id, content).db)
  /\ UNCHANGED auxVars

RemoveNote ==
  /\ \E auth \in Auths, id \in NoteIds : Commit(DeleteNote(Store, auth, id).db)
  /\ UNCHANGED auxVars

\* The notes of purchase orders: the routes that create the purchase orders
\* and their assignments, and the note routes.
NotesNext ==
  \/ CreatePO
  \/ CreatePOAssignment
  \/ RemovePOAssignment
  \/ CreateNote
  \/ EditNote
  \/ RemoveNote

SpecNotes == Init /\ [][NotesNext]_vars

EditPOOnFault ==
  /\ \E auth \in Auths, id \in POIds, status \in POStatusInputs, fault \in LookupFaults :
       Commit(PutPurchaseOrderOnFault(Store, auth, id, status, fault).db)
  /\ UNCHANGED auxVars

RemovePOOnFault ==
  /\ \E auth \in Auths, id \in POIds, onDelete \in ReferentialActions,
        fault \in LookupFaults :
       Commit(DeletePurchaseOrderOnFault(Store, auth, id, onDelete, fault).db)
  /\ UNCHANGED auxVars

\* The purchase order routes over a store whose lookups may throw.
FaultNext ==
  \/ CreatePO
  \/ CreatePOAssignment
  \/ RemovePOAssignment
  \/ CreateShipment
  \/ EditPOOnFault
  \/ RemovePOOnFault

SpecFaults == Init /\ [][FaultNext]_vars

RequestEditPO ==
  /\ \E auth \in Auths, id \in POIds, body \in POUpdateBodies :
       Commit(PutPurchaseOrderRequest(Store, auth, id, body).db)
  /\ UNCHANGED auxVars

RequestEditShipment ==
  /\ \E auth \in Auths, id \in ShipmentIds, body \in ShipmentUpdateBodies(Store) :
       Commit(PutShipmentRequest(Store, auth, id, body).db)
  /\ UNCHANGED auxVars

RequestEditContainer ==
  /\ \E auth \in Auths, id \in ContainerIds, body \in ContainerUpdateBodies(Store) :
       Commit(PutContainerRequest(Store, auth, id, body).db)
  /\ UNCHANGED auxVars

RequestEditBale ==
  /\ \E auth \in Auths, id \in BaleIds, body \in BaleUpdateBodies(Store) :
       Commit(PutBaleRequest(Store, auth, id, body).db)
  /\ UNCHANGED auxVars

RequestEditUser ==
  /\ \E auth \in Auths, id \in UserIdInputs, body \in UserUpdateBodies :
       Commit(PutUserRequest(Store, auth, id, body).db)
  /\ UNCHANGED auxVars

\* The entities and the PUT routes, with the bodies as the clients send
\* them.
UpdatesNext ==
  \/ CreatePO
  \/ CreateShipment
  \/ CreateContainer
  \/ CreateBale
  \/ RequestEditPO
  \/ RequestEditShipment
  \/ RequestEditContainer
  \/ RequestEditBale
  \/ RequestEditUser

SpecUpdates == Init /\ [][UpdatesNext]_vars

\* The readings and the grade a bale body carries: moisturePct is optional
\* (the column is then null), color, wetness and grade are strings the
\* client chooses.
QCMoistureInputs == {NullMoisture, Pct(12), Pct(28)}

QCColorInputs == {"GREEN", "BROWN"}

QCWetnessInputs == {"DRY", "WET"}

QCGradeInputs == {"A", "C", "REJECT"}

\* Bale bodies for the rows the store holds, with every combination of
\* readings and grade.
GradedBaleData(d) ==
  [ containerId : DOMAIN d.containers,
    shipmentId  : DOMAIN d.shipments,
    poId        : DOMAIN d.purchaseOrders,
    inspectorId : {"insp1"},
    decision    : {"ACCEPT"},
    moisturePct : QCMoistureInputs,
    color       : QCColorInputs,
    wetness     : QCWetnessInputs,
    mold        : BOOLEAN,
    contamination : {FALSE},
    grade       : QCGradeInputs ]

\* PUT bodies that name one reading, the grade, or a reading and the grade.
QCUpdateBodies ==
  { [moisturePct |-> m] : m \in QCMoistureInputs \ {NullMoisture} }
    \cup { [mold |-> x] : x \in BOOLEAN }
    \cup { [grade |-> g] : g \in QCGradeInputs }
    \cup { [wetness |-> w, grade |-> g] : w \in QCWetnessInputs, g \in QCGradeInputs }

CreateGradedBale ==
  /\ Cardinality(DOMAIN bales) < MaxBale
  /\ \E auth \in Auths, data \in GradedBaleData(Store) :
       Commit(PostBale(Store, auth, data).db)
  /\ UNCHANGED auxVars

EditGradedBale ==
  /\ \E auth \in Auths, id \in BaleIds, body \in QCUpdateBodies :
       Commit(PutBaleRequest(Store, auth, id, body).db)
  /\ UNCHANGED auxVars

\* The bales with their readings and grades: the routes that create the
\* parents, and the create and update of the bales.
GradingNext ==
  \/ CreatePO
  \/ CreateShipment
  \/ CreateContainer
  \/ CreateGradedBale
  \/ EditGradedBale

SpecGrading == Init /\ [][GradingNext]_vars

\* A request does not push the count of a live window beyond MaxCount.
CountBelowMax(key) ==
  (key \in DOMAIN rateStore /\ now <= rateStore[key].resetTime)
    => rateStore[key].count < MaxCount

\* A request to a route under /api/auth/.
AuthRequest ==
  /\ \E key \in ClientKeys :
       /\ CountBelowMax(key)
       /\ rateStore' = AuthChain(rateStore, key, now).store
       /\ authPassed' = [authPassed EXCEPT ![key] =
                           IF AuthChain(rateStore, key, now).passed THEN @ + 1 ELSE @]
  /\ UNCHANGED <<now, tokens, shipmentReq, gradeVars, storeVars>>

\* A request to any other route but /health.
ApiRequest ==
  /\ \E key \in ClientKeys :
       /\ CountBelowMax(key)
       /\ rateStore' = apiRateLimit(rateStore, key, now).store
  /\ UNCHANGED <<now, authPassed, tokens, shipmentReq, gradeVars, storeVars>>

\* A minute passes.
Tick ==
  /\ now < MaxTime
  /\ now' = now + 1
  /\ UNCHANGED <<rateStore, authPassed, tokens, shipmentReq, gradeVars, storeVars>>

\* setInterval, every 5 minutes: the entries whose window is over go.
CleanUp ==
  /\ now % 5 = 0
  /\ rateStore' = Restrict(rateStore, { k \in DOMAIN rateStore : ~(now > rateStore[k].resetTime) })
  /\ UNCHANGED <<now, authPassed, tokens, shipmentReq, gradeVars, storeVars>>

RateLimitNext ==
  \/ AuthRequest
  \/ ApiRequest
  \/ Tick
  \/ CleanUp

SpecRateLimit == Init /\ [][RateLimitNext]_vars

\* authMiddleware: c.get("auth") is the payload of the token the request
\* carries, or null without one.
TokenAuths == tokens \cup {NoAuth}

Login ==
  /\ \E companyId \in Companies, userId \in UserIds, pinValid \in BOOLEAN :
       LET r == PostLogin(Store, companyId, userId, pinValid)
       IN tokens' = IF r.status = 200 THEN tokens \cup {r.token} ELSE tokens
  /\ UNCHANGED <<storeVars, rateVars, shipmentReq, gradeVars>>

DeactivateUser ==
  /\ \E auth \in TokenAuths, id \in UserIds : Commit(DeleteUser(Store, auth, id).db)
  /\ UNCHANGED auxVars

CreatePOWithToken ==
  /\ Cardinality(DOMAIN purchaseOrders) < MaxPO
  /\ \E auth \in TokenAuths : Commit(PostPurchaseOrder(Store, auth).db)
  /\ UNCHANGED auxVars

\* Logins, deactivations and the requests that carry the tokens issued.
UsersNext ==
  \/ Login
  \/ DeactivateUser
  \/ CreatePOWithToken

SpecUsers == Init /\ [][UsersNext]_vars

\* POST /api/shipments as the event loop runs it: each await is a point
\* where another request's handler may run.
ShipmentCreate ==
  /\ shipmentReq.pc = "idle"
  /\ Cardinality(DOMAIN shipments) < MaxShipment
  /\ \E auth \in Auths, poId \in POIds :
       LET r == PostShipmentCreate(Store, auth, poId)
       IN /\ Commit(r.db)
          /\ shipmentReq' = IF r.status = 201
                              THEN [pc |-> "created", poId |-> poId, po |-> NoPO]
                              ELSE NoShipmentReq
  /\ UNCHANGED <<tokens, rateVars, gradeVars>>

ShipmentFindPO ==
  /\ shipmentReq.pc = "created"
  /\ shipmentReq' = [shipmentReq EXCEPT !.pc = "found",
                                         !.po = PostShipmentFindPO(Store, shipmentReq.poId)]
  /\ UNCHANGED <<storeVars, tokens, rateVars, gradeVars>>

ShipmentUpdatePO ==
  /\ shipmentReq.pc = "found"
  /\ Commit(PostShipmentUpdatePO(Store, shipmentReq.poId, shipmentReq.po).db)
  /\ shipmentReq' = NoShipmentReq
  /\ UNCHANGED <<tokens, rateVars, gradeVars>>

\* A shipment being created while purchase orders are created and updated.
RaceNext ==
  \/ CreatePO
  \/ EditPO
  \/ ShipmentCreate
  \/ ShipmentFindPO
  \/ ShipmentUpdatePO

SpecRace == Init /\ [][RaceNext]_vars

\* rangeStart and rangeEnd: z.number().int().positive().
RangeInputs == 1..MaxRange

\* The bodies updateAssignmentSchema accepts: both ends are optional.
RangeUpdateBodies ==
  { [rangeStart |-> a] : a \in RangeInputs }
    \cup { [rangeEnd |-> b] : b \in RangeInputs }
    \cup { [rangeStart |-> a, rangeEnd |-> b] : a \in RangeInputs, b \in RangeInputs }

CreateRangeAssignment ==
  /\ Cardinality(DOMAIN inspectorAssignments) < MaxInspectorAssignment
  /\ \E auth \in Auths, containerId \in ContainerIds, inspectorId \in InspectorIds,
        rangeStart \in RangeInputs, rangeEnd \in RangeInputs :
       Commit(PostAssignmentRange(Store, auth, containerId, inspectorId,
                                  rangeStart, rangeEnd).db)
  /\ UNCHANGED auxVars

EditRangeAssignment ==
  /\ \E auth \in Auths, id \in 1..(MaxInspectorAssignment + 1), body \in RangeUpdateBodies :
       Commit(PutAssignment(Store, auth, id, body).db)
  /\ UNCHANGED auxVars

\* The inspector assignments with their bale ranges: the routes that create
\* the parents, and the create and update of the assignments.
RangesNext ==
  \/ CreatePO
  \/ CreateShipment
  \/ CreateContainer
  \/ CreateRangeAssignment
  \/ EditRangeAssignment

SpecRanges == Init /\ [][RangesNext]_vars

\* The classifier on its own: every input of the declared domain, called
\* twice.
GradeInit ==
  /\ StoreInit
  /\ EdgeInit
  /\ gradeIn \in GradeInputs
  /\ gradeOut = NoGrade
  /\ gradeAgain = NoGrade

Classify ==
  /\ gradeOut = NoGrade
  /\ gradeOut' = Grade(gradeIn)
  /\ UNCHANGED <<gradeIn, gradeAgain>>
  /\ UNCHANGED <<storeVars, edgeVars>>

ClassifyAgain ==
  /\ gradeOut # NoGrade
  /\ gradeAgain = NoGrade
  /\ gradeAgain' = Grade(gradeIn)
  /\ UNCHANGED <<gradeIn, gradeOut>>
  /\ UNCHANGED <<storeVars, edgeVars>>

GradeNext ==
  \/ Classify
  \/ ClassifyAgain

SpecGrade == GradeInit /\ [][GradeNext]_vars

\* ================================================================== claims
AssignedOnlyPrincipals ==
  { auth \in Principals : auth.role = "CUSTOMER" \/ auth.role = "SUPPLIER" }

CompanyWidePrincipals ==
  { auth \in Principals : auth.role = "SUPERVISOR" \/ auth.role = "INSPECTOR" }

Range(seq) == { seq[i] : i \in DOMAIN seq }

\* C1: for every principal and every purchase order, shipment, container or
\* bale whose root company (by the parent chain) is not the principal's, the
\* guard of that type ends in 404: never ALLOW, never 403, whatever
\* POUserAssignment rows exist.
C1_CrossTenantNotFound ==
  \A auth \in Principals :
    /\ \A id \in DOMAIN purchaseOrders :
         POCompany(Store, id) # auth.companyId
           => requirePOAccess(Store, auth, id).status = 404
    /\ \A id \in DOMAIN shipments :
         ShipmentCompany(Store, id) # auth.companyId
           => requireShipmentAccess(Store, auth, id).status = 404
    /\ \A id \in DOMAIN containers :
         ContainerCompany(Store, id) # auth.companyId
           => requireContainerAccess(Store, auth, id).status = 404
    /\ \A id \in DOMAIN bales :
         BaleCompany(Store, id) # auth.companyId
           => requireBaleAccess(Store, auth, id).status = 404

\* A CUSTOMER or SUPPLIER holds an assignment on the purchase order of a bale
\* of another company, and both the container and the bale guard answer 404.
C1_Witness ==
  \E auth \in AssignedOnlyPrincipals, id \in DOMAIN bales :
    /\ BaleCompany(Store, id) # auth.companyId
    /\ HasAssignment(Store, bales[id].poId, auth.userId)
    /\ HasAssignment(Store, BaleChainPO(Store, id), auth.userId)
    /\ requireBaleAccess(Store, auth, id).status = 404
    /\ requireContainerAccess(Store, auth, bales[id].containerId).status = 404

\* C2: for every CUSTOMER or SUPPLIER principal P and every purchase order,
\* shipment, container or bale E of P's company, the guard returns ALLOW
\* exactly when a POUserAssignment (E.poId, P.userId) exists, and 403 (not
\* 404) when none exists.  E.poId is the id itself for a purchase order, the
\* poId of the ownership record for a shipment and a container, and the poId
\* field of the row for a bale.
C2_AssignedOnlyIffAssignment ==
  \A auth \in AssignedOnlyPrincipals :
    /\ \A id \in DOMAIN purchaseOrders :
         POCompany(Store, id) = auth.companyId
           => requirePOAccess(Store, auth, id).status
                = (IF HasAssignment(Store, id, auth.userId) THEN 200 ELSE 403)
    /\ \A id \in DOMAIN shipments :
         ShipmentCompany(Store, id) = auth.companyId
           => requireShipmentAccess(Store, auth, id).status
                = (IF HasAssignment(Store, shipments[id].poId, auth.userId)
                     THEN 200 ELSE 403)
    /\ \A id \in DOMAIN containers :
         ContainerCompany(Store, id) = auth.companyId
           => requireContainerAccess(Store, auth, id).status
                = (IF HasAssignment(Store, ContainerPO(Store, id), auth.userId)
                     THEN 200 ELSE 403)
    /\ \A id \in DOMAIN bales :
         BaleCompany(Store, id) = auth.companyId
           => requireBaleAccess(Store, auth, id).status
                = (IF HasAssignment(Store, bales[id].poId, auth.userId)
                     THEN 200 ELSE 403)

\* One CUSTOMER or SUPPLIER is allowed on an assigned shipment of its company
\* and refused with 403 on an unassigned purchase order of its company.
C2_Witness ==
  \E auth \in AssignedOnlyPrincipals, s \in DOMAIN shipments, po \in DOMAIN purchaseOrders :
    /\ ShipmentCompany(Store, s) = auth.companyId
    /\ POCompany(Store, po) = auth.companyId
    /\ requireShipmentAccess(Store, auth, s).status = 200
    /\ requirePOAccess(Store, auth, po).status = 403

\* C3: for every SUPERVISOR or INSPECTOR principal and every existing
\* purchase order, shipment, container or bale whose root company is the
\* principal's, the guard returns ALLOW, with or without an assignment.
C3_CompanyWideAllow ==
  \A auth \in CompanyWidePrincipals :
    /\ \A id \in DOMAIN purchaseOrders :
         POCompany(Store, id) = auth.companyId
           => requirePOAccess(Store, auth, id).status = 200
    /\ \A id \in DOMAIN shipments :
         ShipmentCompany(Store, id) = auth.companyId
           => requireShipmentAccess(Store, auth, id).status = 200
    /\ \A id \in DOMAIN containers :
         ContainerCompany(Store, id) = auth.companyId
           => requireContainerAccess(Store, auth, id).status = 200
    /\ \A id \in DOMAIN bales :
         BaleCompany(Store, id) = auth.companyId
           => requireBaleAccess(Store, auth, id).status = 200

\* An INSPECTOR is allowed on a bale of its company under a purchase order it
\* holds an assignment for, and on a purchase order of its company it holds
\* none for; the SUPERVISOR of that company, without any assignment, is
\* allowed on the bale too.
C3_Witness ==
  \E auth \in CompanyWidePrincipals, sup \in CompanyWidePrincipals,
     b \in DOMAIN bales, po \in DOMAIN purchaseOrders :
    /\ auth.role = "INSPECTOR"
    /\ sup.role = "SUPERVISOR"
    /\ sup.companyId = auth.companyId
    /\ BaleCompany(Store, b) = auth.companyId
    /\ POCompany(Store, po) = auth.companyId
    /\ bales[b].poId = BaleChainPO(Store, b)
    /\ HasAssignment(Store, bales[b].poId, auth.userId)
    /\ ~HasAssignment(Store, po, auth.userId)
    /\ ~HasAssignment(Store, bales[b].poId, sup.userId)
    /\ requireBaleAccess(Store, auth, b).status = 200
    /\ requirePOAccess(Store, auth, po).status = 200
    /\ requireBaleAccess(Store, sup, b).status = 200

\* C4: take the store as it is and the store that differs only in that a row
\* of another company (with what hangs beneath it) is absent: for a principal
\* not of that company each of the four guards answers both with the same
\* status and the same message.
C4_AntiEnumeration ==
  \A auth \in Principals :
    /\ \A id \in DOMAIN purchaseOrders :
         POCompany(Store, id) # auth.companyId
           => Visible(requirePOAccess(Store, auth, id))
                = Visible(requirePOAccess(WithoutPO(Store, id), auth, id))
    /\ \A id \in DOMAIN shipments :
         ShipmentCompany(Store, id) # auth.companyId
           => Visible(requireShipmentAccess(Store, auth, id))
                = Visible(requireShipmentAccess(WithoutShipment(Store, id), auth, id))
    /\ \A id \in DOMAIN containers :
         ContainerCompany(Store, id) # auth.companyId
           => Visible(requireContainerAccess(Store, auth, id))
                = Visible(requireContainerAccess(WithoutContainer(Store, id), auth, id))
    /\ \A id \in DOMAIN bales :
         BaleCompany(Store, id) # auth.companyId
           => Visible(requireBaleAccess(Store, auth, id))
                = Visible(requireBaleAccess(WithoutBale(Store, id), auth, id))

\* A purchase order of another company exists next to one of the principal's
\* own, the principal is a SUPERVISOR, and the answer for the foreign id is
\* the answer of the store without it: 404 "Purchase order not found".
C4_Witness ==
  \E auth \in Principals, own \in DOMAIN purchaseOrders, other \in DOMAIN purchaseOrders :
    /\ auth.role = "SUPERVISOR"
    /\ POCompany(Store, own) = auth.companyId
    /\ POCompany(Store, other) # auth.companyId
    /\ other \notin DOMAIN WithoutPO(Store, other).purchaseOrders
    /\ own \in DOMAIN WithoutPO(Store, other).purchaseOrders
    /\ Visible(requirePOAccess(Store, auth, other))
         = [status |-> 404, message |-> "Purchase order not found"]
    /\ Visible(requirePOAccess(WithoutPO(Store, other), auth, other))
         = [status |-> 404, message |-> "Purchase order not found"]

\* The steps of one guard run are in order: ownership lookup, company
\* comparison, assignment lookup.
InOrder(steps) ==
  \/ steps = <<>>
  \/ steps = <<"ownership">>
  \/ steps = <<"ownership", "company">>
  \/ steps = <<"ownership", "company", "assignment">>

\* One guard run o for a row that is found or not and has the given root
\* company: the assignment lookup is issued only by a CUSTOMER or SUPPLIER,
\* only after the ownership lookup found the row and the company comparison
\* passed, and 403 comes only after the company comparison passed.
RunOrdered(o, auth, found, company) ==
  /\ InOrder(o.steps)
  /\ "assignment" \in Range(o.steps)
       => /\ found
          /\ company = auth.companyId
          /\ (auth.role = "CUSTOMER" \/ auth.role = "SUPPLIER")
  /\ o.status = 403
       => /\ found
          /\ company = auth.companyId
          /\ "company" \in Range(o.steps)

\* C5: within a single guard run the steps are ordered ownership lookup,
\* company check, assignment lookup (the last only for CUSTOMER/SUPPLIER); the
\* assignment lookup is never issued when the ownership lookup returned
\* nothing or the company check failed, and 403 is never produced before the
\* company check has passed.
C5_GuardStepOrder ==
  \A auth \in Auths :
    /\ \A id \in POIds :
         RunOrdered(requirePOAccess(Store, auth, id), auth,
                    id \in DOMAIN purchaseOrders,
                    IF id \in DOMAIN purchaseOrders THEN POCompany(Store, id) ELSE "")
    /\ \A id \in ShipmentIds :
         RunOrdered(requireShipmentAccess(Store, auth, id), auth,
                    id \in DOMAIN shipments,
                    IF id \in DOMAIN shipments THEN ShipmentCompany(Store, id) ELSE "")
    /\ \A id \in ContainerIds :
         RunOrdered(requireContainerAccess(Store, auth, id), auth,
                    id \in DOMAIN containers,
                    IF id \in DOMAIN containers THEN ContainerCompany(Store, id) ELSE "")
    /\ \A id \in BaleIds :
         RunOrdered(requireBaleAccess(Store, auth, id), auth,
                    id \in DOMAIN bales,
                    IF id \in DOMAIN bales THEN BaleCompany(Store, id) ELSE "")

\* A CUSTOMER or SUPPLIER without an assignment runs the container guard on a
\* container of another company (the run stops at the company check) and on
\* the purchase order guard of its own company (all three steps, then 403).
C5_Witness ==
  \E auth \in AssignedOnlyPrincipals, c \in DOMAIN containers, po \in DOMAIN purchaseOrders :
    /\ ContainerCompany(Store, c) # auth.companyId
    /\ ~HasAssignment(Store, ContainerPO(Store, c), auth.userId)
    /\ requireContainerAccess(Store, auth, c).steps = <<"ownership", "company">>
    /\ POCompany(Store, po) = auth.companyId
    /\ requirePOAccess(Store, auth, po).steps = <<"ownership", "company", "assignment">>
    /\ requirePOAccess(Store, auth, po).status = 403

\* C6: after any sequence of bale creations through POST /api/bales and POST
\* /api/bales/bulk, every stored bale's shipmentId and poId are the ones
\* reached by walking its container to the container's shipment and that
\* shipment's purchase order; a client-supplied shipmentId or poId that
\* disagrees with the chain is never stored.
C6_DenormalizedIdsMatchChain ==
  \A b \in DOMAIN bales :
    /\ bales[b].shipmentId = BaleChainShipment(Store, b)
    /\ bales[b].poId = BaleChainPO(Store, b)

\* C7: in every state reachable through the API a CUSTOMER or SUPPLIER is
\* granted ALLOW on a bale by requireBaleAccess exactly when a
\* POUserAssignment exists for that user and the purchase order the bale
\* sits beneath (the PO of the bale's container's shipment).  Stated for the
\* bales of the principal's own company, where the company scoping of C1 does
\* not already decide the outcome.
C7_BaleAllowIffAssignedToChainPO ==
  \A auth \in AssignedOnlyPrincipals, b \in DOMAIN bales :
    BaleCompany(Store, b) = auth.companyId
      => ( requireBaleAccess(Store, auth, b).status = 200
             <=> HasAssignment(Store, BaleChainPO(Store, b), auth.userId) )

\* C8: for every authenticated principal and every combination of the query
\* filters, GET /api/bales and GET /api/assignments never return a row whose
\* root company is not the principal's.
C8_ListReadsTenantScoped ==
  \A auth \in Principals :
    /\ \A q \in BaleQueries :
         \A b \in GetBales(Store, auth, q).data :
           BaleCompany(Store, b) = auth.companyId
    /\ \A q \in AssignmentQueries :
         \A a \in GetAssignments(Store, auth, q).data :
           ContainerCompany(Store, inspectorAssignments[a].containerId) = auth.companyId

\* C9: for every CUSTOMER or SUPPLIER principal and every combination of the
\* query filters (none included), GET /api/bales returns only bales beneath
\* purchase orders that user holds an assignment for: the rows returned are
\* among the bales requireBaleAccess would allow.
C9_BaleListWithinAssignedPOs ==
  \A auth \in AssignedOnlyPrincipals, q \in BaleQueries :
    \A b \in GetBales(Store, auth, q).data :
      /\ HasAssignment(Store, BaleChainPO(Store, b), auth.userId)
      /\ requireBaleAccess(Store, auth, b).status = 200

RuleHolds(n, in) ==
  CASE n = 1 -> in.mold \/ in.contamination \/ in.wetness = "WET"
    [] n = 2 -> /\ in.color \in {"DARK_GREEN", "GREEN"}
                /\ in.moisture \in Pct(10)..Pct(14)
                /\ in.wetness = "DRY"
    [] n = 3 -> in.moisture # NullMoisture /\ in.moisture > Pct(30)
    [] n = 4 -> in.moisture # NullMoisture /\ in.moisture > Pct(25)
    [] n = 5 -> \/ in.color \in {"LIGHT_GREEN", "BROWN"}
                \/ (in.moisture # NullMoisture /\ Pct(14) < in.moisture
                      /\ in.moisture <= Pct(25))
                \/ in.wetness = "DAMP"
    [] n = 6 -> in.color \in {"DARK_GREEN", "GREEN"} /\ in.wetness = "DRY"
    [] n = 7 -> TRUE

RuleGrade == <<"REJECT", "A", "D", "C", "B", "A", "B">>

FirstMatchingRule(in) ==
  CHOOSE n \in 1..7 : RuleHolds(n, in) /\ \A k \in 1..(n - 1) : ~RuleHolds(k, in)

C13_BoundaryAt14 ==
  ( /\ gradeOut # NoGrade
    /\ gradeIn.color \in {"DARK_GREEN", "GREEN"} /\ gradeIn.wetness = "DRY"
    /\ ~gradeIn.mold /\ ~gradeIn.contamination
    /\ gradeIn.moisture # NullMoisture )
  => /\ (Pct(10) <= gradeIn.moisture /\ gradeIn.moisture <= Pct(14)) => gradeOut = "A"
     /\ (Pct(14) < gradeIn.moisture /\ gradeIn.moisture <= Pct(25)) => gradeOut = "B"
     /\ (Pct(10) <= gradeIn.moisture /\ gradeIn.moisture <= Pct(25))
          => ( RuleHolds(2, gradeIn) # RuleHolds(5, gradeIn) )

\* The classifier has returned B for a DARK_GREEN, DRY bale at the first
\* reading above 14 percent.
C13_Witness ==
  /\ gradeIn.color = "DARK_GREEN" /\ gradeIn.wetness = "DRY"
  /\ ~gradeIn.mold /\ ~gradeIn.contamination
  /\ gradeIn.moisture = Pct(14) + 1
  /\ gradeOut = "B"

\* C14: the fallback grade A rule (rule 6) applies only when the moisture is
\* unknown: calculateBaleGrade returns A for an input with a known moisture
\* only if that moisture lies in [10,14].
C14_FallbackAOnlyForUnknownMoisture ==
  (gradeOut = "A" /\ gradeIn.moisture # NullMoisture)
    => (Pct(10) <= gradeIn.moisture /\ gradeIn.moisture <= Pct(14))

\* A request that is refused for the role: 403 and the store as it was.
Refused(r) == r.status = 403 /\ r.db = Store

\* A request that changed the store.
TookEffect(r) == r.db # Store

\* The responses to every update or delete of a purchase order, shipment,
\* container or bale and every create or delete of a POUserAssignment that
\* the principal can send.
SupervisorOnlyRequests(auth) ==
  { PutPurchaseOrder(Store, auth, id, status) : id \in POIds, status \in POStatusInputs }
  \cup { DeletePurchaseOrder(Store, auth, id, onDelete) :
           id \in POIds, onDelete \in ReferentialActions }
  \cup { PutShipment(Store, auth, id, status) :
           id \in ShipmentIds, status \in ShipmentStatusInputs }
  \cup { DeleteShipment(Store, auth, id, onDelete) :
           id \in ShipmentIds, onDelete \in ReferentialActions }
  \cup { PutContainer(Store, auth, id, status) :
           id \in ContainerIds, status \in ContainerStatusInputs }
  \cup { DeleteContainer(Store, auth, id, onDelete) :
           id \in ContainerIds, onDelete \in ReferentialActions }
  \cup { PutBale(Store, auth, id, decision) : id \in BaleIds, decision \in DecisionInputs }
  \cup { DeleteBale(Store, auth, id) : id \in BaleIds }
  \cup { PostPOAssignment(Store, auth, row.poId, row.userId) : row \in AssignmentRows }
  \cup { DeletePOAssignment(Store, auth, row) : row \in AssignmentRows }

\* C15: an update or delete of a purchase order, shipment, container or bale,
\* and a create or delete of a POUserAssignment, takes effect only when the
\* principal's role is SUPERVISOR; for every other role the request is
\* refused with 403 and the stored entities and assignments are unchanged.
C15_SupervisorOnlyMutations ==
  \A auth \in Auths :
    \A r \in SupervisorOnlyRequests(auth) :
      /\ TookEffect(r) => auth.role = "SUPERVISOR"
      /\ (auth \in Principals /\ auth.role # "SUPERVISOR") => Refused(r)

\* A bale carries a decision an update gave it; the INSPECTOR of its company
\* is refused the update and the delete, and the SUPERVISOR's update and
\* delete of that bale would take effect.
C15_Witness ==
  \E b \in DOMAIN bales, insp \in Principals, sup \in Principals :
    /\ bales[b].decision = "REJECT"
    /\ insp.role = "INSPECTOR" /\ sup.role = "SUPERVISOR"
    /\ insp.companyId = BaleCompany(Store, b)
    /\ sup.companyId = BaleCompany(Store, b)
    /\ Refused(PutBale(Store, insp, b, "ACCEPT"))
    /\ Refused(DeleteBale(Store, insp, b))
    /\ TookEffect(PutBale(Store, sup, b, "ACCEPT"))
    /\ TookEffect(DeleteBale(Store, sup, b))

\* A create that went through: 201, or rows stored.
Created(r) == r.status = 201 \/ TookEffect(r)

\* The responses to every create of a purchase order, shipment or container
\* the principal can send.
EntityCreateRequests(auth) ==
  { PostPurchaseOrder(Store, auth) }
  \cup { PostShipment(Store, auth, poId) : poId \in POIds }
  \cup { PostContainer(Store, auth, shipmentId) : shipmentId \in ShipmentIds }

\* The responses to every single and bulk create of bales the principal can
\* send.
BaleCreateRequests(auth) ==
  { PostBale(Store, auth, data) : data \in BaleData(Store) }
  \cup { PostBalesBulk(Store, auth, items) :
           items \in UNION { [1..n -> BaleData(Store)] : n \in 0..MaxBulk } }

\* C16: creating a purchase order, shipment or container succeeds only for a
\* SUPERVISOR; creating a bale, single or bulk, succeeds only for a
\* SUPERVISOR or INSPECTOR; a CUSTOMER or SUPPLIER can create none of the
\* four.
C16_CreationRights ==
  \A auth \in Auths :
    /\ \A r \in EntityCreateRequests(auth) : Created(r) => auth.role = "SUPERVISOR"
    /\ \A r \in BaleCreateRequests(auth) :
         Created(r) => auth.role \in {"SUPERVISOR", "INSPECTOR"}
    /\ auth.role \in {"CUSTOMER", "SUPPLIER"}
         => \A r \in EntityCreateRequests(auth) \cup BaleCreateRequests(auth) : Refused(r)

\* A container exists; the INSPECTOR of its company can create a bale in it
\* but no container next to it, and a CUSTOMER of that company who holds the
\* assignment of its purchase order can create neither.
C16_Witness ==
  \E c \in DOMAIN containers, insp \in Principals, cust \in Principals :
    /\ insp.role = "INSPECTOR" /\ cust.role = "CUSTOMER"
    /\ insp.companyId = ContainerCompany(Store, c)
    /\ cust.companyId = ContainerCompany(Store, c)
    /\ HasAssignment(Store, ContainerPO(Store, c), cust.userId)
    /\ requireContainerAccess(Store, cust, c).status = 200
    /\ \E data \in BaleData(Store) :
         /\ data.containerId = c
         /\ PostBale(Store, insp, data).status = 201
         /\ Refused(PostBale(Store, cust, data))
    /\ Refused(PostContainer(Store, insp, containers[c].shipmentId))
    /\ Refused(PostContainer(Store, cust, containers[c].shipmentId))

\* C17: a principal whose role string is outside {SUPERVISOR, INSPECTOR,
\* CUSTOMER, SUPPLIER} has no capabilities: no access guard returns ALLOW for
\* it on any entity, entities of its own company included, and no create,
\* update or delete it requests takes effect.
C17_UnknownRoleHasNoCapabilities ==
  /\ UnknownRoleAuth.role \notin Roles
  /\ \A id \in POIds : requirePOAccess(Store, UnknownRoleAuth, id).status # 200
  /\ \A id \in ShipmentIds : requireShipmentAccess(Store, UnknownRoleAuth, id).status # 200
  /\ \A id \in ContainerIds : requireContainerAccess(Store, UnknownRoleAuth, id).status # 200
  /\ \A id \in BaleIds : requireBaleAccess(Store, UnknownRoleAuth, id).status # 200
  /\ \A r \in SupervisorOnlyRequests(UnknownRoleAuth)
               \cup EntityCreateRequests(UnknownRoleAuth)
               \cup BaleCreateRequests(UnknownRoleAuth) : ~Created(r)

\* The principal may act on the note: it passes requirePOAccess for the
\* note's purchase order and is a SUPERVISOR or the note's author.
MayEditNote(auth, n) ==
  /\ requirePOAccess(Store, auth, poNotes[n].poId).status = 200
  /\ (auth.role = "SUPERVISOR" \/ poNotes[n].userId = auth.userId)

C19_AssignmentsOnlyForAssignedOnlyRoles ==
  \A a \in poUserAssignments :
    UserTable[a.userId].role \in {"CUSTOMER", "SUPPLIER"}

\* An outcome that is none of ALLOW, FORBIDDEN and NOT_FOUND.
ErrorOutcome(status) == status \notin {200, 201, 204, 403, 404}

\* C20: a failure of the ownership or assignment lookup (the store throws)
\* never ends a guarded request in NOT_FOUND or FORBIDDEN and never in
\* ALLOW: the guard propagates the failure, and the route answers with an
\* error outcome distinct from 404 and 403, returns no read result and
\* applies no mutation.
C20_LookupFailurePropagates ==
  \A auth \in Principals, id \in POIds, fault \in LookupFaults \ {NoFault} :
    \* the run issues the lookup that fails
    (\E i \in DOMAIN requirePOAccess(Store, auth, id).steps :
        requirePOAccess(Store, auth, id).steps[i] = fault.lookup)
    => /\ ErrorOutcome(requirePOAccessOnFault(Store, auth, id, fault).status)
       /\ requirePOAccessOnFault(Store, auth, id, fault).status
            # requirePOAccess(Store, auth, id).status
       /\ ErrorOutcome(GetPurchaseOrder(Store, auth, id, fault).status)
       /\ GetPurchaseOrder(Store, auth, id, fault).data = {}
       /\ isSupervisor(auth)
            => /\ \A status \in POStatusInputs :
                    LET r == PutPurchaseOrderOnFault(Store, auth, id, status, fault)
                    IN  ErrorOutcome(r.status) /\ r.db = Store
               /\ \A onDelete \in ReferentialActions :
                    LET r == DeletePurchaseOrderOnFault(Store, auth, id, onDelete, fault)
                    IN  ErrorOutcome(r.status) /\ r.db = Store

\* A CUSTOMER holds the assignment of a purchase order of its company: with
\* an answering store it reads the purchase order, and when the assignment
\* lookup throws the read answers 500 FETCH_ERROR without data; the
\* SUPERVISOR's update of that purchase order, which would take effect,
\* answers 500 UPDATE_ERROR and changes nothing when the ownership lookup
\* throws.
C20_Witness ==
  \E cust \in Principals, sup \in Principals, id \in DOMAIN purchaseOrders :
    /\ cust.role = "CUSTOMER" /\ sup.role = "SUPERVISOR"
    /\ HasAssignment(Store, id, cust.userId)
    /\ GetPurchaseOrder(Store, cust, id, NoFault) = Fetched(200, "", "", {id})
    /\ requirePOAccessOnFault(Store, cust, id, [lookup |-> "assignment", code |-> "P2024"]).status = 0
    /\ GetPurchaseOrder(Store, cust, id, [lookup |-> "assignment", code |-> "P2024"])
         = Fetched(500, "FETCH_ERROR", "Failed to fetch purchase order", {})
    /\ TookEffect(PutPurchaseOrderOnFault(Store, sup, id, "COMPLETED", NoFault))
    /\ PutPurchaseOrderOnFault(Store, sup, id, "COMPLETED", [lookup |-> "ownership", code |-> "P1001"])
         = Response(500, "UPDATE_ERROR", "Failed to update purchase order", Store)

\* What the guards read of the store: which rows exist, their parent
\* references and companies, the poId column of the bales, and the PO
\* assignments.
OwnershipData(d) ==
  [ purchaseOrders |-> [i \in DOMAIN d.purchaseOrders |-> d.purchaseOrders[i].companyId],
    shipments |-> [i \in DOMAIN d.shipments |-> d.shipments[i].poId],
    containers |-> [i \in DOMAIN d.containers |-> d.containers[i].shipmentId],
    bales |-> [i \in DOMAIN d.bales |->
                 <<d.bales[i].containerId, d.bales[i].poId>>],
    poUserAssignments |-> d.poUserAssignments ]

\* The decision of every guard for every principal and id.
Decisions(d) ==
  [ auth \in Auths |->
      [ po |-> [id \in POIds |-> Visible(requirePOAccess(d, auth, id))],
        shipment |-> [id \in ShipmentIds |-> Visible(requireShipmentAccess(d, auth, id))],
        container |-> [id \in ContainerIds |-> Visible(requireContainerAccess(d, auth, id))],
        bale |-> [id \in BaleIds |-> Visible(requireBaleAccess(d, auth, id))] ] ]

\* C21, first half: a step that changes the store and leaves the ownership
\* and assignment data as they were (a status or decision update) leaves
\* every guard's decision for every principal and id as it was.
C21_DecisionFollowsBackingState ==
  [][(Store' # Store /\ OwnershipData(Store)' = OwnershipData(Store))
       => Decisions(Store)' = Decisions(Store)]_vars

\* C21: a guard's decision depends only on the principal and the backing
\* state at the time of the call, and once the POUserAssignment for (poId,
\* userId) is deleted every call by that CUSTOMER or SUPPLIER on that
\* purchase order or anything beneath it returns FORBIDDEN until an
\* assignment is created again.  As the decision follows the store alone,
\* the calls between the delete and the next create are the calls in a state
\* without the row; stated for the purchase orders of the principal's own
\* company, where the company scoping of C1 does not already decide the
\* outcome.
C21_RevokedAssignmentForbids ==
  \A auth \in AssignedOnlyPrincipals, po \in DOMAIN purchaseOrders :
    (POCompany(Store, po) = auth.companyId /\ ~HasAssignment(Store, po, auth.userId))
    => /\ requirePOAccess(Store, auth, po).status = 403
       /\ \A s \in DOMAIN shipments :
            shipments[s].poId = po => requireShipmentAccess(Store, auth, s).status = 403
       /\ \A c \in DOMAIN containers :
            ContainerPO(Store, c) = po => requireContainerAccess(Store, auth, c).status = 403
       /\ \A b \in DOMAIN bales :
            BaleChainPO(Store, b) = po => requireBaleAccess(Store, auth, b).status = 403

\* C22: parent references are immutable: no PUT on purchase-orders,
\* shipments, containers, bales or users changes a PurchaseOrder's
\* companyId, a Shipment's poId, a Container's shipmentId, a Bale's
\* containerId, shipmentId or poId, or a User's companyId, so the root
\* company of every entity is in every state the one it was created with.
C22_ParentReferencesImmutable ==
  [][Store' # Store =>
       /\ \A id \in DOMAIN purchaseOrders \cap DOMAIN purchaseOrders' :
            purchaseOrders'[id].companyId = purchaseOrders[id].companyId
       /\ \A id \in DOMAIN shipments \cap DOMAIN shipments' :
            /\ shipments'[id].poId = shipments[id].poId
            /\ ShipmentCompany(Store, id)' = ShipmentCompany(Store, id)
       /\ \A id \in DOMAIN containers \cap DOMAIN containers' :
            /\ containers'[id].shipmentId = containers[id].shipmentId
            /\ ContainerCompany(Store, id)' = ContainerCompany(Store, id)
       /\ \A id \in DOMAIN bales \cap DOMAIN bales' :
            /\ bales'[id].containerId = bales[id].containerId
            /\ bales'[id].shipmentId = bales[id].shipmentId
            /\ bales'[id].poId = bales[id].poId
            /\ BaleCompany(Store, id)' = BaleCompany(Store, id)
       /\ \A id \in DOMAIN users \cap DOMAIN users' :
            users'[id].companyId = users[id].companyId]_vars

\* A SUPERVISOR's PUT with a body that names another purchase order as the
\* parent of a shipment, after an update of that shipment and of a user went
\* through: it answers 200, sets the status and leaves poId as it was; and
\* the same for a body that names another company for the user.
C22_Witness ==
  \E sup \in Principals, s \in DOMAIN shipments, p \in DOMAIN purchaseOrders,
     u \in UserIds :
    /\ p # shipments[s].poId
    /\ shipments[s].status = "DELIVERED"
    /\ ~users[u].isActive
    /\ LET r == PutShipmentRequest(Store, sup, s, [poId |-> p, status |-> "INSPECTED"])
       IN  /\ r.status = 200
           /\ r.db.shipments[s] = [poId |-> shipments[s].poId, status |-> "INSPECTED"]
    /\ LET r == PutUserRequest(Store, sup, u, [companyId |-> "c2", isActive |-> TRUE])
       IN  /\ r.status = 200
           /\ users[u].companyId = "c1"
           /\ r.db.users[u] = [users[u] EXCEPT !.isActive = TRUE]

\* C23: the routes that fetch a child record by id before they call a guard
\* (GET /api/po-notes/:id, GET /api/po-assignments/:id, GET
\* /api/assignments/:id) answer a principal that names a record of another
\* company with the status, error code and message they answer for an id
\* that names no record.
C23_FetchThenGuardHidesForeignRows ==
  \A auth \in Principals :
    /\ \A n \in DOMAIN poNotes :
         POCompany(Store, poNotes[n].poId) # auth.companyId
           => GetNote(Store, auth, n) = GetNote(Store, auth, NewId(poNotes))
    /\ \A row \in poUserAssignments :
         POCompany(Store, row.poId) # auth.companyId
           => GetPOAssignment(Store, auth, row)
                = GetPOAssignment([Store EXCEPT !.poUserAssignments = @ \ {row}], auth, row)
    /\ \A a \in DOMAIN inspectorAssignments :
         ContainerCompany(Store, inspectorAssignments[a].containerId) # auth.companyId
           => GetAssignment(Store, auth, a)
                = GetAssignment(Store, auth, NewId(inspectorAssignments))

\* C24: grading is never inconsistent: after any sequence of bale creates
\* and updates through the API the grade of every stored bale is
\* calculateBaleGrade of that bale's stored moisturePct, color, wetness, mold
\* and contamination.
C24_StoredGradeIsCalculatedGrade ==
  \A b \in DOMAIN bales :
    bales[b].grade =
      calculateBaleGrade(bales[b].moisturePct, bales[b].color, bales[b].wetness,
                         bales[b].mold, bales[b].contamination)

\* C25: for any one client key at most 10 requests to /api/auth/* are passed
\* on to the handler within any 15-minute window, every further request in
\* that window being answered 429, with apiRateLimit run before
\* authRateLimit over the shared Map.  Stated for the window that starts
\* with the server.
C25_AuthRateLimit ==
  \A key \in ClientKeys :
    now < AuthWindow => authPassed[key] <= AuthMax

\* C26: in every state reachable through POST /api/assignments and PUT
\* /api/assignments/:id, the updates that name only rangeStart or only
\* rangeEnd included, every stored InspectorAssignment has rangeEnd >=
\* rangeStart.
C26_RangeEndNotBelowStart ==
  \A a \in DOMAIN inspectorAssignments :
    inspectorAssignments[a].rangeEnd >= inspectorAssignments[a].rangeStart

\* C27: once DELETE /api/users/:id has set a user's isActive to false, no
\* request that carries a token issued to that user before is granted
\* access by a guard or creates anything.  A token is issued only to an
\* active user, so a token of an inactive user was issued before the
\* deactivation.
C27_DeactivationRevokesAccess ==
  \A t \in tokens :
    ~users[t.userId].isActive =>
      /\ requireAuth(t).status # 200
      /\ \A id \in DOMAIN purchaseOrders : requirePOAccess(Store, t, id).status # 200
      /\ PostPurchaseOrder(Store, t).status # 201

\* C28: under every interleaving of POST /api/shipments with PUT
\* /api/purchase-orders/:id, the write of the shipment route leaves alone a
\* purchase order whose status is not OPEN at the moment of the write.
C28_ShipmentWriteOnlyFromOpen ==
  [][ (shipmentReq.pc = "found" /\ shipmentReq'.pc = "idle") =>
        \A id \in DOMAIN purchaseOrders :
          purchaseOrders[id].status # "OPEN" =>
            purchaseOrders'[id].status = purchaseOrders[id].status ]_vars

\* C29: POST /api/bales/bulk is all-or-nothing: when it answers with an
\* error none of the bales of the request is stored, and when it answers
\* 201 all of them are.
C29_BulkAllOrNothing ==
  \A auth \in Auths, items \in UNION { [1..n -> BaleData(Store)] : n \in 0..MaxBulk } :
    LET r == PostBalesBulk(Store, auth, items)
    IN  /\ r.status # 201 => r.db.bales = bales
        /\ r.status = 201 =>
             Cardinality(DOMAIN r.db.bales) = Cardinality(DOMAIN bales) + Len(items)

====
